---- MODULE Spec2Model ----
(***************************************************************************)
(* The SDLC stage graphs of the repository (the dynamic-interrupt graph of *)
(* workflow/dynamic_interrupt_workflow.py and the interrupt-before graph   *)
(* of workflow/proper_interrupt_workflow.py), their stage functions and    *)
(* routers, and the runners that drive them through pause and resume.      *)
(*                                                                         *)
(* Abstraction of the data.  An artifact (user_stories, design_docs, code, *)
(* test_cases) and review_feedback are kept as "EMPTY" or "FULL": the      *)
(* stage functions and routers branch on emptiness only.  test_cases is    *)
(* "EMPTY" exactly while it is still the list [] every caller supplies:    *)
(* the generation and revision stages only ever store a non-empty dict.    *)
(* A record of review_history keeps the fields iteration and stage; the    *)
(* review result the last record was built from is kept in review_result   *)
(* while the review stage is the stage executed last.  Timestamps are left *)
(* out.                                                                    *)
(***************************************************************************)
EXTENDS Integers, Sequences, FiniteSets, TLC

\* config/settings.py: MAX_ITERATIONS = int(os.getenv("MAX_ITERATIONS", "3"))
MAX_ITERATIONS == 3

\* Largest iteration_count a caller supplies in the initial state.
MaxInitIter == 1

\* Cap on the length of review_history (never binding in a run of the code:
\* at most one review per phase and one more per revision).
MaxHistory == 9

\* Cap on the counters of stage executions kept for the claims.
MaxCount == 9

\* Largest number of pause requests one halt carries.
MaxBatch == 2

\* Largest number of ainvoke calls (the start and the resumes) of one run.
MaxInvocations == 3

\* Polls of the wait for a response before the timeout; the code polls
\* max_wait_time / wait_interval = 300 / 0.5 = 600 times.
MaxPolls == 3

\* Largest number of start_workflow calls followed on one runner object that
\* holds the SDLC graph; one call is followed on a runner of any workflow.
MaxRuns == 2

\* Largest number of sessions the API is asked to start.
MaxSessions == 1

VARIABLES
    workflow,       \* "dynamic" | "static": which compiled graph the run walks
    node,           \* the node the engine executes next, or END_
    state,          \* the SDLCState committed at the last stage boundary
    resumes,        \* resume values recorded for the current invocation of node
    pending,        \* type tag of the pause request awaited, "" when none
    status,         \* "running" | "paused" | "completed" | "failed" | "abandoned"
    last,           \* the stage executed last ("" before the first)
    entry_state,    \* the state the stage executed last received
    review_result,  \* review result of the review stage, while it is the last stage
    revisions,      \* number of revision-stage executions so far
    reviews,        \* number of review-stage executions completed so far
    direct,         \* the inline (continuation) execution of the review in progress
    input_after,    \* contents of the last stage's input state object after it returned
    delegated,      \* outcome of the delegated (LLM) call of the last stage, "" if none
    review_record,  \* the record the review stage appended, while it is the last stage
    completed,      \* the review stages of the dynamic graph that have returned
    runner,         \* the runner object and its task that drives a compiled workflow
    api             \* the API process: its session store, tasks and connections

vars == <<workflow, node, state, resumes, pending, status, last, entry_state,
          review_result, revisions, reviews, direct, input_after, delegated,
          review_record, completed, runner, api>>

END_ == "__end__"

ReviewNodes ==
    {"product_owner_review", "design_review", "code_review",
     "security_review", "test_cases_review"}

RevisionNodes ==
    {"revise_user_stories", "revise_design_documents", "fix_code_after_review",
     "fix_code_after_security", "revise_test_cases"}

\* No review result (before the first review completes).
NoResult ==
    [status |-> "", reviewer |-> "", feedback |-> "", suggestions |-> <<>>,
     review_method |-> ""]

(***************************************************************************)
(* The initial state a caller supplies (main.py, the runners, the API):    *)
(* empty artifacts, empty feedback, approval_status "", no review history. *)
(* iteration_count is 0 in every caller of the repository; a caller may    *)
(* supply another value.                                                   *)
(***************************************************************************)
InitialState(n) ==
    [user_stories     |-> "EMPTY",
     design_docs      |-> "EMPTY",
     code             |-> "EMPTY",
     test_cases       |-> "EMPTY",
     review_feedback  |-> "EMPTY",
     approval_status  |-> "",
     current_stage    |-> "initial",
     iteration_count  |-> n,
     review_history   |-> <<>>]

\* No review record (the last stage appended none).
NoRecord ==
    [iteration |-> 0, stage |-> "", reviewer |-> "", status |-> "",
     feedback |-> "", suggestions |-> <<>>, review_method |-> ""]

\* The direct execution is idle between reviews.
Idle ==
    [pc |-> "idle", user_choice |-> "", overall_decision |-> "",
     out |-> InitialState(0), result |-> NoResult]

\* The value an unset optional attribute holds, and a resume value: a scalar
\* is list = FALSE with one item, a list of n answers is list = TRUE.
NoValue == [list |-> FALSE, items |-> <<>>]

\* pending_interrupt = None
NoPending == [type |-> "", data |-> <<>>]

\* No run of the runner has ended yet.
NoOutcome == [status |-> "", error |-> "", error_type |-> "", callback |-> FALSE]

\* What belongs to one execution of the run loop (one background task): pc,
\* where it stands; waited_time; output, how its last ainvoke ended; halt, the
\* pause requests of its last halt; resume and answered, the value of the
\* Command(resume=...) it has in flight and the pause requests that value was
\* issued for; outcome; stopped, whether stop_workflow was called while it was
\* alive.  This one is the place of a task that was never created.
NoTask ==
    [pc |-> "none", waited_time |-> 0, output |-> "", halt |-> <<>>,
     resume |-> NoValue, answered |-> <<>>, outcome |-> NoOutcome,
     stopped |-> FALSE]

\* A runner object after construction.  class names the runner; workflow is
\* the compiled workflow it holds: "any" workflow, or the "sdlc" graph, every
\* halt of which carries one pause request of a review stage.  The fields of
\* NoTask are those of the task created last (pc is "new" before the first);
\* earlier holds the task created before it.  Kept for the claims:
\* invocations, the ainvoke calls made; runs, the start_workflow calls
\* accepted.
Runner(class, on_workflow_error) ==
    [class |-> class, workflow |-> "any", pc |-> "new",
     is_running |-> FALSE, is_interrupted |-> FALSE,
     pending_interrupt |-> NoPending, interrupt_response |-> NoValue,
     on_workflow_error |-> on_workflow_error, waited_time |-> 0,
     output |-> "", halt |-> <<>>, resume |-> NoValue, answered |-> <<>>,
     invocations |-> 0,
     outcome |-> NoOutcome,
     stopped |-> FALSE, runs |-> 0, earlier |-> NoTask]

\* The place of a session that was never started.  pending_interrupt and
\* interrupt_response are "" for None (and for the absent key).
NoSession ==
    [status |-> "", current_stage |-> "", progress |-> 0,
     error_message |-> "", pending_interrupt |-> "", interrupt_response |-> ""]

\* The API process after start-up: workflow_sessions, the session ids
\* stored; session, the session object made for each id (a task keeps its
\* object after the id is removed from the store); task, where the
\* background task of each id stands; websocket_connections.  Kept for the
\* claims: accepted, the ids with an accepted response; reply, the answer
\* when the last step was a respond request; notices, the messages sent
\* over web sockets in the last step.
NoApi ==
    [workflow_sessions |-> {},
     session |-> [i \in 1..MaxSessions |-> NoSession],
     task |-> [i \in 1..MaxSessions |-> "none"],
     websocket_connections |-> {},
     accepted |-> {},
     reply |-> [op |-> "", session_id |-> 0, code |-> 0],
     notices |-> <<>>]

\* AsyncWorkflowRunner.__init__
NewRunner == Runner("AsyncWorkflowRunner", FALSE)

Init ==
    /\ workflow \in {"dynamic", "static", "simple"}
    /\ node = "ui_user_inputs_requirements"
    /\ \E n \in 0..MaxInitIter : state = InitialState(n)
    /\ resumes = <<>>
    /\ pending = ""
    /\ status = "running"
    /\ last = ""
    /\ entry_state = state
    /\ review_result = NoResult
    /\ revisions = 0
    /\ reviews = 0
    /\ direct = Idle
    /\ input_after = state
    /\ delegated = ""
    /\ review_record = NoRecord
    /\ completed = {}
    /\ runner = NewRunner
    /\ api = NoApi

(***************************************************************************)
(* Stage functions without suspension points.  llm is what the delegated   *)
(* generation returned: "EMPTY" (an empty JSON value), "FULL", or "FAIL"   *)
(* (the call or the parse raised and the stage's except branch ran).       *)
(***************************************************************************)
LLM == {"EMPTY", "FULL", "FAIL"}

ui_user_inputs_requirements(s) ==
    [s EXCEPT !.current_stage = "requirements_captured",
              !.iteration_count = 0,
              !.approval_status = "pending"]

\* _generate_stories_from_requirements: the fallback stories are never empty.
auto_generate_user_stories(s, llm) ==
    [s EXCEPT !.user_stories = IF llm = "FAIL" THEN "FULL" ELSE llm,
              !.current_stage = "user_stories_generated"]

\* Variant of create_design_documents: the design phase starts its own count.
create_design_documents_own_count(s, llm) ==
    IF s.user_stories = "EMPTY"
    THEN [s EXCEPT !.current_stage = "design_documents_failed",
                   !.iteration_count = 0]
    ELSE [s EXCEPT !.design_docs = IF llm = "FAIL" THEN "FULL" ELSE llm,
                   !.current_stage = "design_documents_created",
                   !.iteration_count = 0]

\* _generate_consolidated_design_document: the fallback document is not empty.
create_design_documents(s, llm) ==
    IF s.user_stories = "EMPTY"
    THEN [s EXCEPT !.current_stage = "design_documents_failed"]
    ELSE [s EXCEPT !.design_docs = IF llm = "FAIL" THEN "FULL" ELSE llm,
                   !.current_stage = "design_documents_created"]

\* Variant of generate_code: no file put into the code dictionary.
generate_code_no_file(s) ==
    IF s.design_docs = "EMPTY"
    THEN [s EXCEPT !.current_stage = "code_generation_failed"]
    ELSE [s EXCEPT !.current_stage = "code_generated"]

\* code_files = {"main.py": python_code}: never empty once generated.
generate_code(s) ==
    IF s.design_docs = "EMPTY"
    THEN [s EXCEPT !.current_stage = "code_generation_failed"]
    ELSE [s EXCEPT !.code = "FULL", !.current_stage = "code_generated"]

\* test_cases = {"test_main.py": ...} or the fallback: never empty once generated.
generate_test_cases(s) ==
    IF s.code = "EMPTY"
    THEN [s EXCEPT !.current_stage = "test_generation_failed"]
    ELSE [s EXCEPT !.test_cases = "FULL", !.current_stage = "test_cases_generated"]

\* deployment calls test_cases.keys() unguarded: it raises while test_cases is
\* still the list [] of the initial state.
deployment_raises(s) == s.test_cases = "EMPTY"

deployment(s) == [s EXCEPT !.current_stage = "deployment_complete"]

(***************************************************************************)
(* Revision stages.  A padded or trimmed revision of a non-empty story     *)
(* list is non-empty; a failed revision keeps the current artifact.        *)
(***************************************************************************)
\* _generate_revised_stories_dynamic / _generate_revised_stories
RevisedStories(current, llm) == IF llm = "FULL" THEN "FULL" ELSE current

\* _generate_revised_design_documents_dynamic
RevisedDesign(current, llm) == IF llm = "FAIL" THEN current ELSE llm

revise_user_stories_dynamic(s, llm) ==
    [s EXCEPT !.user_stories = RevisedStories(s.user_stories, llm),
              !.current_stage = "user_stories_revised",
              !.iteration_count = s.iteration_count + 1,
              !.review_feedback = "EMPTY",
              !.approval_status = ""]

\* Variant of revise_design_documents_dynamic: the count raised by 2.
revise_design_documents_twice(s, llm) ==
    [s EXCEPT !.design_docs = RevisedDesign(s.design_docs, llm),
              !.current_stage = "design_documents_revised",
              !.iteration_count = s.iteration_count + 2,
              !.review_feedback = "EMPTY",
              !.approval_status = ""]

revise_design_documents_dynamic(s, llm) ==
    [s EXCEPT !.design_docs = RevisedDesign(s.design_docs, llm),
              !.current_stage = "design_documents_revised",
              !.iteration_count = s.iteration_count + 1,
              !.review_feedback = "EMPTY",
              !.approval_status = ""]

\* Variant of fix_code_after_review_dynamic: the skip branch taken always.
fix_code_after_review_skipping(s) ==
    IF s.code = "EMPTY"
    THEN [s EXCEPT !.current_stage = "code_fix_failed"]
    ELSE [s EXCEPT !.current_stage = "code_fix_skipped"]

\* _generate_improved_code_files merges the originals back: never empty.
fix_code_after_review_dynamic(s) ==
    IF s.code = "EMPTY"
    THEN [s EXCEPT !.current_stage = "code_fix_failed"]
    ELSE IF s.review_feedback = "EMPTY"
    THEN [s EXCEPT !.current_stage = "code_fix_skipped"]
    ELSE [s EXCEPT !.code = "FULL",
                   !.current_stage = "code_fixed_after_review",
                   !.iteration_count = s.iteration_count + 1,
                   !.review_feedback = "EMPTY",
                   !.approval_status = ""]

\* Variant of fix_code_after_security_dynamic: the count left as it was.
fix_code_after_security_uncounted(s) ==
    IF s.code = "EMPTY"
    THEN [s EXCEPT !.current_stage = "security_fix_failed"]
    ELSE IF s.review_feedback = "EMPTY"
    THEN [s EXCEPT !.current_stage = "security_fix_skipped"]
    ELSE [s EXCEPT !.code = "FULL",
                   !.current_stage = "code_fixed_after_security",
                   !.review_feedback = "EMPTY",
                   !.approval_status = ""]

fix_code_after_security_dynamic(s) ==
    IF s.code = "EMPTY"
    THEN [s EXCEPT !.current_stage = "security_fix_failed"]
    ELSE IF s.review_feedback = "EMPTY"
    THEN [s EXCEPT !.current_stage = "security_fix_skipped"]
    ELSE [s EXCEPT !.code = "FULL",
                   !.current_stage = "code_fixed_after_security",
                   !.iteration_count = s.iteration_count + 1,
                   !.review_feedback = "EMPTY",
                   !.approval_status = ""]

revise_test_cases_dynamic(s) ==
    IF s.test_cases = "EMPTY"
    THEN [s EXCEPT !.current_stage = "test_revision_failed"]
    ELSE IF s.review_feedback = "EMPTY"
    THEN [s EXCEPT !.current_stage = "test_revision_skipped"]
    ELSE [s EXCEPT !.test_cases = "FULL",
                   !.current_stage = "test_cases_revised",
                   !.iteration_count = s.iteration_count + 1,
                   !.review_feedback = "EMPTY",
                   !.approval_status = ""]

\* The interrupt-before graph's revision stage: approval_status is kept.
revise_user_stories(s, llm) ==
    [s EXCEPT !.user_stories = RevisedStories(s.user_stories, llm),
              !.current_stage = "user_stories_revised",
              !.iteration_count = s.iteration_count + 1]

(***************************************************************************)
(* Routers: one copy per review stage in the source.                       *)
(***************************************************************************)
route_after_po_review_dynamic(s) ==
    IF s.approval_status = "approve" THEN "create_design_documents"
    ELSE IF s.iteration_count >= MAX_ITERATIONS THEN "create_design_documents"
    ELSE "revise_user_stories"

route_after_design_review_dynamic(s) ==
    IF s.approval_status = "approve" THEN "generate_code"
    ELSE IF s.iteration_count >= MAX_ITERATIONS THEN "generate_code"
    ELSE "revise_design_documents"

\* Variant of route_after_code_review_dynamic: the cap compared with > for >=.
route_after_code_review_strict(s) ==
    IF s.approval_status = "approve" THEN "security_review"
    ELSE IF s.iteration_count > MAX_ITERATIONS THEN "security_review"
    ELSE "fix_code_after_review"

route_after_code_review_dynamic(s) ==
    IF s.approval_status = "approve" THEN "security_review"
    ELSE IF s.iteration_count >= MAX_ITERATIONS THEN "security_review"
    ELSE "fix_code_after_review"

route_after_security_review_dynamic(s) ==
    IF s.approval_status = "approve" THEN "generate_test_cases"
    ELSE IF s.iteration_count >= MAX_ITERATIONS THEN "generate_test_cases"
    ELSE "fix_code_after_security"

\* Variant of route_after_test_review_dynamic: approval returns the key
\* "deploy", which no outcome map declares.
route_after_test_review_undeclared(s) ==
    IF s.approval_status = "approve" THEN "deploy"
    ELSE IF s.iteration_count >= MAX_ITERATIONS THEN "deployment"
    ELSE "revise_test_cases"

route_after_test_review_dynamic(s) ==
    IF s.approval_status = "approve" THEN "deployment"
    ELSE IF s.iteration_count >= MAX_ITERATIONS THEN "deployment"
    ELSE "revise_test_cases"

\* The interrupt-before graph's router compares with "approved".
route_after_po_review(s) ==
    IF s.approval_status = "approved" THEN "create_design_documents"
    ELSE IF s.iteration_count >= MAX_ITERATIONS THEN "create_design_documents"
    ELSE "revise_user_stories"

(***************************************************************************)
(* The three graphs as they are built: "dynamic" (16 nodes), "static" (the *)
(* interrupt-before graph, 4 nodes) and "simple" (2 nodes).                *)
(***************************************************************************)
Graphs == {"dynamic", "static", "simple"}

\* add_node
AddNode(w) ==
    CASE w = "dynamic" ->
           {"ui_user_inputs_requirements", "auto_generate_user_stories",
            "product_owner_review", "revise_user_stories",
            "create_design_documents", "design_review",
            "revise_design_documents",
            "generate_code", "code_review", "fix_code_after_review",
            "security_review", "fix_code_after_security",
            "generate_test_cases", "test_cases_review", "revise_test_cases",
            "deployment"}
      [] w = "static" ->
           {"ui_user_inputs_requirements", "auto_generate_user_stories",
            "product_owner_review", "revise_user_stories"}
      [] w = "simple" ->
           {"ui_user_inputs_requirements", "auto_generate_user_stories"}

\* set_entry_point
SetEntryPoint(w) == "ui_user_inputs_requirements"

\* Variant of AddEdge: the dynamic graph without the edge deployment -> END.
AddEdgeNoEnd(w) ==
    CASE w = "dynamic" ->
           {<<"ui_user_inputs_requirements", "auto_generate_user_stories">>,
            <<"auto_generate_user_stories", "product_owner_review">>,
            <<"revise_user_stories", "product_owner_review">>,
            <<"create_design_documents", "design_review">>,
            <<"revise_design_documents", "design_review">>,
            <<"generate_code", "code_review">>,
            <<"fix_code_after_review", "code_review">>,
            <<"fix_code_after_security", "security_review">>,
            <<"generate_test_cases", "test_cases_review">>,
            <<"revise_test_cases", "test_cases_review">>}
      [] w = "static" ->
           {<<"ui_user_inputs_requirements", "auto_generate_user_stories">>,
            <<"auto_generate_user_stories", "product_owner_review">>,
            <<"revise_user_stories", "product_owner_review">>}
      [] w = "simple" ->
           {<<"ui_user_inputs_requirements", "auto_generate_user_stories">>,
            <<"auto_generate_user_stories", END_>>}

\* add_edge: the pairs <<source, target>>.
AddEdge(w) ==
    CASE w = "dynamic" ->
           {<<"ui_user_inputs_requirements", "auto_generate_user_stories">>,
            <<"auto_generate_user_stories", "product_owner_review">>,
            <<"revise_user_stories", "product_owner_review">>,
            <<"create_design_documents", "design_review">>,
            <<"revise_design_documents", "design_review">>,
            <<"generate_code", "code_review">>,
            <<"fix_code_after_review", "code_review">>,
            <<"fix_code_after_security", "security_review">>,
            <<"generate_test_cases", "test_cases_review">>,
            <<"revise_test_cases", "test_cases_review">>,
            <<"deployment", END_>>}
      [] w = "static" ->
           {<<"ui_user_inputs_requirements", "auto_generate_user_stories">>,
            <<"auto_generate_user_stories", "product_owner_review">>,
            <<"revise_user_stories", "product_owner_review">>}
      [] w = "simple" ->
           {<<"ui_user_inputs_requirements", "auto_generate_user_stories">>,
            <<"auto_generate_user_stories", END_>>}

\* The outcome map whose two keys name their own targets.
Identity(k1, k2) == (k1 :> k1) @@ (k2 :> k2)

\* Variant of AddConditionalEdges: the interrupt-before graph's outcome map
\* names the node create_design_documents, which that graph never registers.
AddConditionalEdgesUnregistered(w) ==
    CASE w = "dynamic" ->
           {[source |-> "product_owner_review",
             path |-> "route_after_po_review_dynamic",
             path_map |-> Identity("create_design_documents",
                                   "revise_user_stories")],
            [source |-> "design_review",
             path |-> "route_after_design_review_dynamic",
             path_map |-> Identity("generate_code",
                                   "revise_design_documents")],
            [source |-> "code_review",
             path |-> "route_after_code_review_dynamic",
             path_map |-> Identity("security_review",
                                   "fix_code_after_review")],
            [source |-> "security_review",
             path |-> "route_after_security_review_dynamic",
             path_map |-> Identity("generate_test_cases",
                                   "fix_code_after_security")],
            [source |-> "test_cases_review",
             path |-> "route_after_test_review_dynamic",
             path_map |-> Identity("deployment", "revise_test_cases")]}
      [] w = "static" ->
           {[source |-> "product_owner_review",
             path |-> "route_after_po_review",
             path_map |-> Identity("create_design_documents",
                                   "revise_user_stories")]}
      [] w = "simple" -> {}

\* add_conditional_edges: the source node, the router and its outcome map.
AddConditionalEdges(w) ==
    CASE w = "dynamic" ->
           {[source |-> "product_owner_review",
             path |-> "route_after_po_review_dynamic",
             path_map |-> Identity("create_design_documents",
                                   "revise_user_stories")],
            [source |-> "design_review",
             path |-> "route_after_design_review_dynamic",
             path_map |-> Identity("generate_code",
                                   "revise_design_documents")],
            [source |-> "code_review",
             path |-> "route_after_code_review_dynamic",
             path_map |-> Identity("security_review",
                                   "fix_code_after_review")],
            [source |-> "security_review",
             path |-> "route_after_security_review_dynamic",
             path_map |-> Identity("generate_test_cases",
                                   "fix_code_after_security")],
            [source |-> "test_cases_review",
             path |-> "route_after_test_review_dynamic",
             path_map |-> Identity("deployment", "revise_test_cases")]}
      [] w = "static" ->
           {[source |-> "product_owner_review",
             path |-> "route_after_po_review",
             path_map |-> ("create_design_documents" :> END_)
                          @@ ("revise_user_stories" :> "revise_user_stories")]}
      [] w = "simple" -> {}

\* The outcome map registered for node n of graph w.
PathMap(w, n) ==
    (CHOOSE c \in AddConditionalEdges(w) : c.source = n).path_map

\* The key a node's router returns on state s.
RouterKey(w, n, s) ==
    CASE w = "static" -> route_after_po_review(s)
      [] w = "dynamic" /\ n = "product_owner_review" ->
           route_after_po_review_dynamic(s)
      [] w = "dynamic" /\ n = "design_review" ->
           route_after_design_review_dynamic(s)
      [] w = "dynamic" /\ n = "code_review" ->
           route_after_code_review_dynamic(s)
      [] w = "dynamic" /\ n = "security_review" ->
           route_after_security_review_dynamic(s)
      [] w = "dynamic" /\ n = "test_cases_review" ->
           route_after_test_review_dynamic(s)

\* A key outside the outcome map makes the engine raise; no node is entered.
KeyError == "<KeyError>"

\* The engine looks the returned key up in the outcome map.
Follow(path_map, key) ==
    IF key \in DOMAIN path_map THEN path_map[key] ELSE KeyError

(***************************************************************************)
(* What the engine follows: add_conditional_edges and add_edge.            *)
(***************************************************************************)
Route(n, s) == Follow(PathMap("dynamic", n), RouterKey("dynamic", n, s))

\* Variant of Edge: the security fix wired back to code_review.
EdgeCrossed(n) ==
    CASE n = "ui_user_inputs_requirements" -> "auto_generate_user_stories"
      [] n = "auto_generate_user_stories"  -> "product_owner_review"
      [] n = "revise_user_stories"         -> "product_owner_review"
      [] n = "create_design_documents"     -> "design_review"
      [] n = "revise_design_documents"     -> "design_review"
      [] n = "generate_code"               -> "code_review"
      [] n = "fix_code_after_review"       -> "code_review"
      [] n = "fix_code_after_security"     -> "code_review"
      [] n = "generate_test_cases"         -> "test_cases_review"
      [] n = "revise_test_cases"           -> "test_cases_review"
      [] n = "deployment"                  -> END_

\* Variant of Edge: the revised tests sent back to test generation.
EdgeRegenerating(n) ==
    CASE n = "ui_user_inputs_requirements" -> "auto_generate_user_stories"
      [] n = "auto_generate_user_stories"  -> "product_owner_review"
      [] n = "revise_user_stories"         -> "product_owner_review"
      [] n = "create_design_documents"     -> "design_review"
      [] n = "revise_design_documents"     -> "design_review"
      [] n = "generate_code"               -> "code_review"
      [] n = "fix_code_after_review"       -> "code_review"
      [] n = "fix_code_after_security"     -> "security_review"
      [] n = "generate_test_cases"         -> "test_cases_review"
      [] n = "revise_test_cases"           -> "generate_test_cases"
      [] n = "deployment"                  -> END_

\* The unconditional edge that leaves node n in the graph being run.
Edge(n) ==
    CHOOSE t \in AddNode(workflow) \cup {END_} :
        <<n, t>> \in AddEdge(workflow)

\* The interrupt-before graph maps the key "create_design_documents" to END.
StaticRoute(s) ==
    Follow(PathMap("static", "product_owner_review"),
           RouterKey("static", "product_owner_review", s))

(***************************************************************************)
(* Review stages of the dynamic graph.  Each has up to four suspension     *)
(* call-sites, in this order: the review-method choice, the human          *)
(* decision, the human feedback, the human suggestions.                    *)
(***************************************************************************)
Sites == <<"choice", "decision", "feedback", "suggestions">>

\* The "type" field of the payload each call-site passes to interrupt().
Tag(n, site) ==
    CASE n = "product_owner_review" ->
           (CASE site = "choice"      -> "review_choice"
              [] site = "decision"    -> "human_review_decision"
              [] site = "feedback"    -> "human_review_feedback"
              [] site = "suggestions" -> "human_review_suggestions")
      [] n = "design_review" ->
           (CASE site = "choice"      -> "design_review_choice"
              [] site = "decision"    -> "human_design_review_decision"
              [] site = "feedback"    -> "human_design_review_feedback"
              [] site = "suggestions" -> "human_design_review_suggestions")
      [] n = "code_review" ->
           (CASE site = "choice"      -> "code_review_choice"
              [] site = "decision"    -> "human_code_review_decision"
              [] site = "feedback"    -> "human_code_review_feedback"
              [] site = "suggestions" -> "human_code_review_suggestions")
      [] n = "security_review" ->
           (CASE site = "choice"      -> "security_review_choice"
              [] site = "decision"    -> "human_security_review_decision"
              [] site = "feedback"    -> "human_security_review_feedback"
              [] site = "suggestions" -> "human_security_risk_assessment")
      [] n = "test_cases_review" ->
           (CASE site = "choice"      -> "test_cases_review_choice"
              [] site = "decision"    -> "human_test_review_decision"
              [] site = "feedback"    -> "human_test_review_feedback"
              [] site = "suggestions" -> "human_test_improvement_suggestions")

\* The artifact each review stage looks at.
ArtifactOf(n) ==
    CASE n = "product_owner_review" -> "user_stories"
      [] n = "design_review"        -> "design_docs"
      [] n = "code_review"          -> "code"
      [] n = "security_review"      -> "code"
      [] n = "test_cases_review"    -> "test_cases"

\* Resume values a caller supplies at each call-site.
Choices == {"human", "ai", "auto", "other"}

Decisions == {"approve", "request_changes", "reject"}

\* A feedback answer is a dict with a "feedback" entry or any other value.
FeedbackValues == [isdict : BOOLEAN, text : {"", "fb"}]

SuggestionValues == {"", "sg"}

ResumeValues(site) ==
    CASE site = "choice"      -> Choices
      [] site = "decision"    -> Decisions
      [] site = "feedback"    -> FeedbackValues
      [] site = "suggestions" -> SuggestionValues

\* What the AI review's JSON completion gives: a dict with this status, a dict
\* without a status, or an exception.
NoStatus == "<missing>"

AIOutcomes == {"approve", "request_changes", "reject", NoStatus, "FAIL"}

\* detailed_feedback.get("feedback", "") if isinstance(.., dict) else str(..)
FeedbackText(v) == v.text

\* [str(suggestion_input).strip()] if the answer is not blank, else []
Suggestions(v) == IF v = "" THEN <<>> ELSE <<v>>

\* What a run of a stage up to its next suspension or its return produces.
Suspended(s, type) ==
    [paused |-> TRUE, type |-> type, out |-> s, result |-> NoResult]

Returned(s, r) == [paused |-> FALSE, type |-> "", out |-> s, result |-> r]

\* Variant of HandleAutoApprove: the status spelled "approved".
HandleAutoApproveSpelled ==
    [status |-> "approved", reviewer |-> "Auto", feedback |-> "auto",
     suggestions |-> <<>>, review_method |-> "auto_dynamic"]

\* _handle_auto_approve_dynamic and its four siblings
HandleAutoApprove ==
    [status |-> "approve", reviewer |-> "Auto", feedback |-> "auto",
     suggestions |-> <<>>, review_method |-> "auto_dynamic"]

\* Variant of HandleAIReview: a failed delegated review is passed on as it is.
HandleAIReviewUnhandled(ai) ==
    [status |-> ai, reviewer |-> "AI", feedback |-> "ai",
     suggestions |-> <<>>, review_method |-> "ai_dynamic"]

\* _handle_ai_review_dynamic and its four siblings
HandleAIReview(ai) ==
    IF ai = "FAIL" THEN HandleAutoApprove
    ELSE [status |-> ai, reviewer |-> "AI", feedback |-> "ai",
          suggestions |-> <<>>, review_method |-> "ai_dynamic"]

\* The dict _handle_human_review_dynamic returns.
HumanResult(overall_decision, feedback, suggestions) ==
    [status |-> overall_decision, reviewer |-> "Human",
     feedback |-> IF feedback = "" THEN "default" ELSE feedback,
     suggestions |-> suggestions, review_method |-> "human_dynamic"]

\* The review record appended and the state the review stage returns.
ReviewRecord(n, s, r) ==
    [iteration |-> s.iteration_count, stage |-> n]

\* Variant of CompleteReview: the history replaced by the new record alone.
CompleteReviewFreshHistory(n, s, r) ==
    [s EXCEPT !.review_feedback = "FULL",
              !.approval_status = IF r.status = NoStatus THEN "approved" ELSE r.status,
              !.current_stage = n \o "_complete",
              !.review_history = <<ReviewRecord(n, s, r)>>]

\* Variant of CompleteReview: the record appended once more, as a re-run of
\* the stage that appended on its way would leave it.
CompleteReviewEachRun(n, s, r) ==
    [s EXCEPT !.review_feedback = "FULL",
              !.approval_status = IF r.status = NoStatus THEN "approved" ELSE r.status,
              !.current_stage = n \o "_complete",
              !.review_history = Append(Append(s.review_history, ReviewRecord(n, s, r)),
                                        ReviewRecord(n, s, r))]

CompleteReview(n, s, r) ==
    [s EXCEPT !.review_feedback = "FULL",
              !.approval_status = IF r.status = NoStatus THEN "approved" ELSE r.status,
              !.current_stage = n \o "_complete",
              !.review_history = Append(s.review_history, ReviewRecord(n, s, r))]

\* The early return of a review stage whose artifact is empty.
EmptyReview(n, s) ==
    [s EXCEPT !.approval_status = "approved", !.current_stage = n \o "_complete"]

(***************************************************************************)
(* Execution under the engine: every run of a stage starts at its first    *)
(* line; the i-th interrupt() call of the run returns the i-th recorded    *)
(* resume value, and the first call without one suspends the run.          *)
(***************************************************************************)
HasResume(rs, i) == i <= Len(rs)

\* Variant of HandleHumanReview: the feedback answer read from the decision's slot.
HandleHumanReviewShifted(n, s, rs) ==
    IF ~HasResume(rs, 2) THEN Suspended(s, Tag(n, "decision"))
    ELSE LET overall_decision == rs[2] IN
      IF overall_decision = "approve"
      THEN Returned(s, HumanResult(overall_decision, "", <<>>))
      ELSE IF ~HasResume(rs, 3) THEN Suspended(s, Tag(n, "feedback"))
      ELSE LET feedback == rs[2] IN
        IF feedback = ""
        THEN Returned(s, HumanResult(overall_decision, feedback, <<>>))
        ELSE IF ~HasResume(rs, 4) THEN Suspended(s, Tag(n, "suggestions"))
        ELSE Returned(s, HumanResult(overall_decision, feedback, Suggestions(rs[4])))

\* Variant of HandleHumanReview: the feedback asked for whatever the decision.
HandleHumanReviewAsksAlways(n, s, rs) ==
    IF ~HasResume(rs, 2) THEN Suspended(s, Tag(n, "decision"))
    ELSE LET overall_decision == rs[2] IN
      IF ~HasResume(rs, 3) THEN Suspended(s, Tag(n, "feedback"))
      ELSE LET feedback == FeedbackText(rs[3]) IN
        IF feedback = ""
        THEN Returned(s, HumanResult(overall_decision, feedback, <<>>))
        ELSE IF ~HasResume(rs, 4) THEN Suspended(s, Tag(n, "suggestions"))
        ELSE Returned(s, HumanResult(overall_decision, feedback, Suggestions(rs[4])))

\* Variant of HandleHumanReview: the handler returns after the decision.
HandleHumanReviewOneStep(n, s, rs) ==
    IF ~HasResume(rs, 2) THEN Suspended(s, Tag(n, "decision"))
    ELSE Returned(s, HumanResult(rs[2], "", <<>>))

\* _handle_human_review_dynamic: its call-sites are the 2nd, 3rd and 4th.
HandleHumanReview(n, s, rs) ==
    IF ~HasResume(rs, 2) THEN Suspended(s, Tag(n, "decision"))
    ELSE LET overall_decision == rs[2] IN
      IF overall_decision = "approve"
      THEN Returned(s, HumanResult(overall_decision, "", <<>>))
      ELSE IF ~HasResume(rs, 3) THEN Suspended(s, Tag(n, "feedback"))
      ELSE LET feedback == FeedbackText(rs[3]) IN
        IF feedback = ""
        THEN Returned(s, HumanResult(overall_decision, feedback, <<>>))
        ELSE IF ~HasResume(rs, 4) THEN Suspended(s, Tag(n, "suggestions"))
        ELSE Returned(s, HumanResult(overall_decision, feedback, Suggestions(rs[4])))

\* Variant of SavedRecord: review_method taken from the review result.
SavedRecordResultMethod(n, s, r, user_choice) ==
    [iteration |-> s.iteration_count, stage |-> n,
     reviewer |-> r.reviewer,
     status |-> IF r.status = NoStatus THEN "unknown" ELSE r.status,
     feedback |-> r.feedback, suggestions |-> r.suggestions,
     review_method |-> r.review_method]

\* review_record: the record the stage builds from the review result r and
\* the answer to the review-method choice.
SavedRecord(n, s, r, user_choice) ==
    [iteration |-> s.iteration_count, stage |-> n,
     reviewer |-> r.reviewer,
     status |-> IF r.status = NoStatus THEN "unknown" ELSE r.status,
     feedback |-> r.feedback, suggestions |-> r.suggestions,
     review_method |-> user_choice]

\* product_owner_review_dynamic and its four siblings
ReviewStage(n, s, rs, ai) ==
    IF s[ArtifactOf(n)] = "EMPTY"
    THEN Returned(EmptyReview(n, s), NoResult) @@ [record |-> NoRecord]
    ELSE IF ~HasResume(rs, 1) THEN Suspended(s, Tag(n, "choice"))
    ELSE LET user_choice == rs[1]
             handled == IF user_choice = "human" THEN HandleHumanReview(n, s, rs)
                        ELSE IF user_choice = "ai" THEN Returned(s, HandleAIReview(ai))
                        ELSE IF user_choice = "auto" THEN Returned(s, HandleAutoApprove)
                        ELSE Returned(s, HandleAIReview(ai))
         IN IF handled.paused THEN handled
            ELSE Returned(CompleteReview(n, s, handled.result), handled.result)
                   @@ [record |-> SavedRecord(n, s, handled.result, user_choice)]

product_owner_review_dynamic(s, rs, ai) == ReviewStage("product_owner_review", s, rs, ai)

design_review_dynamic(s, rs, ai) == ReviewStage("design_review", s, rs, ai)

code_review_dynamic(s, rs, ai) == ReviewStage("code_review", s, rs, ai)

security_review_dynamic(s, rs, ai) == ReviewStage("security_review", s, rs, ai)

test_cases_review_dynamic(s, rs, ai) == ReviewStage("test_cases_review", s, rs, ai)

RunReview(n, s, rs, ai) ==
    CASE n = "product_owner_review" -> product_owner_review_dynamic(s, rs, ai)
      [] n = "design_review"        -> design_review_dynamic(s, rs, ai)
      [] n = "code_review"          -> code_review_dynamic(s, rs, ai)
      [] n = "security_review"      -> security_review_dynamic(s, rs, ai)
      [] n = "test_cases_review"    -> test_cases_review_dynamic(s, rs, ai)

(***************************************************************************)
(* Direct execution of the same review stage: one invocation that keeps    *)
(* its locals, in which the call-site it waits at returns the value it is  *)
(* given.  d.pc is the call-site waited at, "done" after the return.       *)
(***************************************************************************)
DirectDone(n, s, d, r) ==
    [d EXCEPT !.pc = "done", !.out = CompleteReview(n, s, r), !.result = r]

DirectStart(n, s) ==
    IF s[ArtifactOf(n)] = "EMPTY"
    THEN [pc |-> "done", user_choice |-> "", overall_decision |-> "",
          out |-> EmptyReview(n, s), result |-> NoResult]
    ELSE [pc |-> "choice", user_choice |-> "", overall_decision |-> "",
          out |-> s, result |-> NoResult]

DirectStep(n, s, d, v, ai) ==
    CASE d.pc = "choice" ->
           IF v = "human" THEN [d EXCEPT !.pc = "decision", !.user_choice = v]
           ELSE IF v = "ai" THEN DirectDone(n, s, [d EXCEPT !.user_choice = v], HandleAIReview(ai))
           ELSE IF v = "auto" THEN DirectDone(n, s, [d EXCEPT !.user_choice = v], HandleAutoApprove)
           ELSE DirectDone(n, s, [d EXCEPT !.user_choice = v], HandleAIReview(ai))
      [] d.pc = "decision" ->
           IF v = "approve"
           THEN DirectDone(n, s, [d EXCEPT !.overall_decision = v], HumanResult(v, "", <<>>))
           ELSE [d EXCEPT !.pc = "feedback", !.overall_decision = v]
      [] d.pc = "feedback" ->
           IF FeedbackText(v) = ""
           THEN DirectDone(n, s, d, HumanResult(d.overall_decision, "", <<>>))
           ELSE [d EXCEPT !.pc = "suggestions",
                          !.result = [NoResult EXCEPT !.feedback = FeedbackText(v)]]
      [] d.pc = "suggestions" ->
           DirectDone(n, s, d, HumanResult(d.overall_decision, d.result.feedback, Suggestions(v)))

(***************************************************************************)
(* The interrupt-before graph's review stage: always the delegated review. *)
(* outcome is the status of its JSON completion ("Not provided" when the   *)
(* completion has none) or "FAIL", after which the fallback review is used.*)
(***************************************************************************)
StaticOutcomes == {"approved", "feedback", "rejected", "Not provided", "FAIL"}

\* _perform_po_review / _generate_fallback_review
PerformPoReview(outcome) == IF outcome = "FAIL" THEN "feedback" ELSE outcome

product_owner_review(s, outcome) ==
    [s EXCEPT !.review_feedback = "FULL",
              !.approval_status = PerformPoReview(outcome),
              !.current_stage = "product_owner_review_complete"]

\* ProperWorkflowRunner._prepare_state_updates_for_choice
PrepareStateUpdatesForChoice(s, choice) ==
    IF choice = "auto"
    THEN [s EXCEPT !.approval_status = "approved", !.review_feedback = "FULL"]
    ELSE s

\* simple_review_handler.ask_review_choice
StaticChoices == {"human", "ai", "auto"}

(***************************************************************************)
(* The engine.  A stage that returns commits its output, and the edge or   *)
(* the router of its node names the node to run next.                      *)
(***************************************************************************)
\* The input state object of stage n once the stage has returned out.  A review
\* stage of the dynamic graph appends its record to the very list the input
\* holds under review_history; the key is present once a review has written it.
InputAfter(n, s, out) ==
    IF workflow = "dynamic" /\ n \in ReviewNodes /\ s.review_history # <<>>
    THEN [s EXCEPT !.review_history = out.review_history]
    ELSE s

\* What the delegated review of stage n returned, "" when the stage made none.
DelegatedReview(n, s, rs, ai) ==
    IF s[ArtifactOf(n)] # "EMPTY" /\ HasResume(rs, 1) /\ rs[1] \notin {"human", "auto"}
    THEN ai ELSE ""

Commit(n, out, next, result, rev, rvw, d, dg, rec) ==
    /\ state' = out
    /\ node' = next
    /\ status' = IF next = END_ THEN "completed" ELSE "running"
    /\ last' = n
    /\ entry_state' = state
    /\ resumes' = <<>>
    /\ pending' = ""
    /\ review_result' = result
    /\ revisions' = revisions + rev
    /\ reviews' = reviews + rvw
    /\ direct' = d
    /\ input_after' = InputAfter(n, state, out)
    /\ delegated' = dg
    /\ review_record' = rec
    /\ completed' = IF workflow = "dynamic" /\ n \in ReviewNodes
                    THEN completed \cup {n} ELSE completed
    /\ UNCHANGED <<workflow, runner, api>>

Ready(n) == status = "running" /\ node = n

UiUserInputsRequirements ==
    /\ Ready("ui_user_inputs_requirements")
    /\ Commit(node, ui_user_inputs_requirements(state), Edge(node), NoResult, 0, 0, Idle, "", NoRecord)

AutoGenerateUserStories ==
    /\ Ready("auto_generate_user_stories")
    /\ \E llm \in LLM :
         Commit(node, auto_generate_user_stories(state, llm), Edge(node), NoResult, 0, 0, Idle, llm, NoRecord)

CreateDesignDocuments ==
    /\ Ready("create_design_documents")
    /\ \E llm \in LLM :
         Commit(node, create_design_documents(state, llm), Edge(node), NoResult, 0, 0, Idle, llm, NoRecord)

GenerateCode ==
    /\ Ready("generate_code")
    /\ Commit(node, generate_code(state), Edge(node), NoResult, 0, 0, Idle, "", NoRecord)

GenerateTestCases ==
    /\ Ready("generate_test_cases")
    /\ Commit(node, generate_test_cases(state), Edge(node), NoResult, 0, 0, Idle, "", NoRecord)

\* The runner catches the exception of a stage and reports the run as failed.
Deployment ==
    /\ Ready("deployment")
    /\ IF deployment_raises(state)
       THEN /\ status' = "failed"
            /\ last' = node
            /\ entry_state' = state
            /\ review_result' = NoResult
            /\ direct' = Idle
            /\ input_after' = state
            /\ delegated' = ""
            /\ review_record' = NoRecord
            /\ UNCHANGED <<workflow, node, state, resumes, pending, revisions,
                           reviews, completed, runner, api>>
       ELSE Commit(node, deployment(state), Edge(node), NoResult, 0, 0, Idle, "", NoRecord)

CanRevise == workflow = "dynamic" /\ revisions < MaxCount /\ state.iteration_count < MaxCount

ReviseUserStoriesDynamic ==
    /\ Ready("revise_user_stories") /\ CanRevise
    /\ \E llm \in LLM :
         Commit(node, revise_user_stories_dynamic(state, llm), Edge(node), NoResult, 1, 0, Idle, llm, NoRecord)

ReviseDesignDocuments ==
    /\ Ready("revise_design_documents") /\ CanRevise
    /\ \E llm \in LLM :
         Commit(node, revise_design_documents_dynamic(state, llm), Edge(node), NoResult, 1, 0, Idle, llm, NoRecord)

FixCodeAfterReview ==
    /\ Ready("fix_code_after_review") /\ CanRevise
    /\ \E llm \in LLM :
         Commit(node, fix_code_after_review_dynamic(state), Edge(node), NoResult, 1, 0, Idle, llm, NoRecord)

FixCodeAfterSecurity ==
    /\ Ready("fix_code_after_security") /\ CanRevise
    /\ \E llm \in LLM :
         Commit(node, fix_code_after_security_dynamic(state), Edge(node), NoResult, 1, 0, Idle, llm, NoRecord)

ReviseTestCases ==
    /\ Ready("revise_test_cases") /\ CanRevise
    /\ \E llm \in LLM :
         Commit(node, revise_test_cases_dynamic(state), Edge(node), NoResult, 1, 0, Idle, llm, NoRecord)

\* A run of a review stage ends in a suspension or in its return.
Settle(r, rs, d, dg) ==
    IF r.paused
    THEN /\ status' = "paused"
         /\ pending' = r.type
         /\ resumes' = rs
         /\ direct' = d
         /\ UNCHANGED <<workflow, node, state, last, entry_state, review_result,
                        revisions, reviews, input_after, delegated,
                        review_record, completed, runner, api>>
    ELSE Commit(node, r.out, Route(node, r.out), r.result, 0, 1, d, dg,
                r.record)

CanReview == reviews < MaxCount /\ Len(state.review_history) < MaxHistory

\* The engine reaches a review node of the dynamic graph: first run of the stage.
Review ==
    /\ workflow = "dynamic" /\ status = "running" /\ node \in ReviewNodes
    /\ CanReview
    /\ \E ai \in AIOutcomes :
         Settle(RunReview(node, state, <<>>, ai), <<>>, DirectStart(node, state),
                DelegatedReview(node, state, <<>>, ai))

\* DynamicWorkflowRunner: the pause request is answered with Command(resume=v)
\* and the engine runs the stage again from its start.
Resume ==
    /\ workflow = "dynamic" /\ status = "paused"
    /\ \E i \in 1..Len(Sites) :
         /\ pending = Tag(node, Sites[i])
         /\ \E v \in ResumeValues(Sites[i]), ai \in AIOutcomes :
              Settle(RunReview(node, state, Append(resumes, v), ai),
                     Append(resumes, v), DirectStep(node, state, direct, v, ai),
                     DelegatedReview(node, state, Append(resumes, v), ai))

(***************************************************************************)
(* The interrupt-before graph under ProperWorkflowRunner.                  *)
(***************************************************************************)
\* interrupt_before=["product_owner_review"]
StaticInterruptBefore ==
    /\ workflow = "static" /\ Ready("product_owner_review")
    /\ status' = "paused"
    /\ pending' = "interrupt_before"
    /\ UNCHANGED <<workflow, node, state, resumes, last, entry_state, review_result,
                   revisions, reviews, direct, input_after, delegated,
                   review_record, completed, runner, api>>

\* The runner's loop body: aupdate_state and ainvoke(None), or give up.
StaticResume ==
    /\ workflow = "static" /\ status = "paused"
    /\ IF state.user_stories = "EMPTY"
       THEN /\ status' = "abandoned"
            /\ UNCHANGED state
       ELSE /\ status' = "resumed"
            /\ \E choice \in StaticChoices :
                 state' = PrepareStateUpdatesForChoice(state, choice)
    /\ pending' = ""
    /\ UNCHANGED <<workflow, node, resumes, last, entry_state, review_result,
                   revisions, reviews, direct, input_after, delegated,
                   review_record, completed, runner, api>>

\* Variant of ProductOwnerReview: the node entered as any other, paused or not.
ProductOwnerReviewUnpaused ==
    /\ workflow = "static" /\ status \in {"running", "resumed"}
    /\ node = "product_owner_review"
    /\ reviews < MaxCount
    /\ \E outcome \in StaticOutcomes :
         LET out == product_owner_review(state, outcome)
         IN Commit(node, out, StaticRoute(out), NoResult, 0, 1, Idle, outcome, NoRecord)

ProductOwnerReview ==
    /\ workflow = "static" /\ status = "resumed" /\ node = "product_owner_review"
    /\ reviews < MaxCount
    /\ \E outcome \in StaticOutcomes :
         LET out == product_owner_review(state, outcome)
         IN Commit(node, out, StaticRoute(out), NoResult, 0, 1, Idle, outcome, NoRecord)

ReviseUserStories ==
    /\ workflow = "static" /\ Ready("revise_user_stories")
    /\ revisions < MaxCount /\ state.iteration_count < MaxCount
    /\ \E llm \in LLM :
         Commit(node, revise_user_stories(state, llm), Edge(node), NoResult, 1, 0, Idle, llm, NoRecord)

Next ==
    \/ UiUserInputsRequirements
    \/ AutoGenerateUserStories
    \/ Review
    \/ Resume
    \/ ReviseUserStoriesDynamic
    \/ CreateDesignDocuments
    \/ ReviseDesignDocuments
    \/ GenerateCode
    \/ FixCodeAfterReview
    \/ FixCodeAfterSecurity
    \/ GenerateTestCases
    \/ ReviseTestCases
    \/ Deployment
    \/ StaticInterruptBefore
    \/ StaticResume
    \/ ProductOwnerReview
    \/ ReviseUserStories

Spec == Init /\ [][Next]_vars

\* Every pause request is answered and the engine keeps running the graph.
FairSpec == Spec /\ WF_vars(Next)

(***************************************************************************)
(* The two runners over any compiled workflow.  What the workflow does is  *)
(* left open: an ainvoke call raises, returns a finished state, or returns *)
(* a state that carries an ordered batch of pause requests.  A pause       *)
(* request is a structured payload; its "type" key may be absent and its   *)
(* options mapping may be empty.                                           *)
(***************************************************************************)
engine_vars == <<workflow, node, state, resumes, pending, status, last,
                 entry_state, review_result, revisions, reviews, direct,
                 input_after, delegated, review_record, completed>>

\* The payload has no "type" key.
NoType == "<no type>"

RequestShapes ==
    {[type |-> "review_choice",         has_options |-> TRUE],
     [type |-> "human_review_feedback", has_options |-> FALSE],
     [type |-> "custom_gate",           has_options |-> TRUE],
     [type |-> NoType,                  has_options |-> FALSE]}

\* The batches of k pause requests; id is the place of a request in its batch.
Interrupts(k) ==
    {[i \in 1..k |-> [id |-> i, type |-> f[i].type,
                      has_options |-> f[i].has_options]] :
       f \in [1..k -> RequestShapes]}

Outputs ==
    {[kind |-> "raise", interrupts |-> <<>>],
     [kind |-> "done",  interrupts |-> <<>>]}
      \cup {[kind |-> "interrupt", interrupts |-> q] :
              q \in UNION {Interrupts(k) : k \in 1..MaxBatch}}

\* The workflow ends by its MaxInvocations-th invocation.
OutputsAt(n) ==
    IF n < MaxInvocations THEN Outputs
    ELSE {o \in Outputs : o.kind # "interrupt"}

\* What a person types at a prompt, once accepted.
Inputs == {"a", "b"}

\* interrupt_data.get("type", "unknown")
InterruptType(req) == IF req.type = NoType THEN "unknown" ELSE req.type

(***************************************************************************)
(* DynamicWorkflowRunner: the interactive resolvers.  A response records   *)
(* the request it was typed for and the handler that asked.                *)
(***************************************************************************)
\* The tags _handle_single_interrupt dispatches on.
KnownTypes == {Tag(n, Sites[i]) : n \in ReviewNodes, i \in 1..Len(Sites)}

\* The suspension call-site of the review stages that passes the tag type.
SiteOf(type) ==
    CHOOSE site \in {Sites[i] : i \in 1..Len(Sites)} :
      \E n \in ReviewNodes : Tag(n, site) = type

\* The halts of the review stages of the SDLC graph: one pause request each;
\* the payloads of the choice and the decision call-sites carry options.
StageHalts ==
    {[kind |-> "interrupt",
      interrupts |-> <<[id |-> 1, type |-> t,
                        has_options |-> SiteOf(t) \in {"choice", "decision"}]>>] :
       t \in KnownTypes}

\* What an ainvoke call of runner r may give.  The interactive runner is
\* followed over every halt of the review stages as well; the restarts of
\* the API runner over those of the product-owner review.
WorkflowOutputs(r) ==
    {o \in OutputsAt(r.invocations) :
       (r.workflow = "sdlc" /\ o.kind = "interrupt")
         => /\ Len(o.interrupts) = 1
            /\ InterruptType(o.interrupts[1]) \in KnownTypes}
      \cup (IF r.class = "DynamicWorkflowRunner"
               /\ r.invocations < MaxInvocations
            THEN StageHalts ELSE {})

\* What the handler of a known tag returns: a key of the options, the record
\* {"feedback": text}, the typed text, the record {"risk_level", "suggestions"}
\* of _handle_human_security_risk_assessment, or nothing at all:
\* _handle_human_test_improvement_suggestions ends without a return statement.
HandlerShape(type) ==
    IF type = "human_test_improvement_suggestions" THEN "none"
    ELSE IF type = "human_security_risk_assessment" THEN "risk_record"
    ELSE IF SiteOf(type) \in {"choice", "decision"} THEN "key"
    ELSE IF SiteOf(type) = "feedback" THEN "feedback_record"
    ELSE "text"

\* The start_workflow calls followed on runner r.
RunsFollowed(r) == IF r.workflow = "sdlc" THEN MaxRuns ELSE 1

\* _handle_generic_interrupt: a key of the options when there are options,
\* the typed text otherwise.
HandleGenericInterrupt(req, input) ==
    [raised |-> FALSE, asked |-> req.id, via |-> "generic",
     shape |-> IF req.has_options THEN "key" ELSE "text",
     text |-> IF req.has_options THEN "choice:" \o input ELSE input]

\* Variant of HandleSingleInterrupt: no handler for a tag outside KnownTypes.
HandleSingleInterruptStrict(req, input) ==
    IF InterruptType(req) \in KnownTypes
    THEN [raised |-> FALSE, asked |-> req.id, via |-> InterruptType(req),
          shape |-> HandlerShape(InterruptType(req)),
          text |-> IF HandlerShape(InterruptType(req)) = "none"
                   THEN "" ELSE input]
    ELSE [raised |-> TRUE, asked |-> req.id, via |-> "", shape |-> "none",
          text |-> ""]

\* _handle_single_interrupt
HandleSingleInterrupt(req, input) ==
    IF InterruptType(req) \in KnownTypes
    THEN [raised |-> FALSE, asked |-> req.id, via |-> InterruptType(req),
          shape |-> HandlerShape(InterruptType(req)),
          text |-> IF HandlerShape(InterruptType(req)) = "none"
                   THEN "" ELSE input]
    ELSE HandleGenericInterrupt(req, input)

\* _handle_multiple_interrupts
HandleMultipleInterrupts(interrupts, inputs) ==
    [i \in 1..Len(interrupts) |-> HandleSingleInterrupt(interrupts[i], inputs[i])]

\* The Command(resume=...) value of one loop iteration.
ResumeValue(interrupts, inputs) ==
    IF Len(interrupts) = 1
    THEN [list |-> FALSE,
          items |-> <<HandleSingleInterrupt(interrupts[1], inputs[1])>>]
    ELSE [list |-> TRUE, items |-> HandleMultipleInterrupts(interrupts, inputs)]

\* The except clause of run_workflow_with_dynamic_interrupts.
Failure(r, error, error_type) ==
    [r EXCEPT !.pc = "done",
              !.outcome = [status |-> "failed", error |-> error,
                           error_type |-> error_type, callback |-> FALSE]]

\* The loop of run_workflow_with_dynamic_interrupts once ainvoke gave out.
AfterAinvoke(r, out) ==
    LET q == [r EXCEPT !.output = out.kind] IN
      IF out.kind = "raise" THEN Failure(q, "stage error", "Exception")
      ELSE IF out.kind = "interrupt"
      THEN [q EXCEPT !.pc = "prompting", !.halt = out.interrupts]
      ELSE [q EXCEPT !.pc = "done", !.outcome.status = "completed"]

\* run_workflow_with_dynamic_interrupts: the first ainvoke is called.
RunWorkflowWithDynamicInterrupts ==
    /\ runner.class = "DynamicWorkflowRunner" /\ runner.pc = "new"
    /\ runner' = [runner EXCEPT !.pc = "invoking", !.invocations = 1]
    /\ UNCHANGED <<engine_vars, api>>

\* The ainvoke awaited by the loop returns or raises.
AinvokeReturns ==
    /\ runner.class = "DynamicWorkflowRunner"
    /\ runner.pc \in {"invoking", "resuming"}
    /\ \E out \in WorkflowOutputs(runner) :
         runner' = AfterAinvoke([runner EXCEPT !.resume = NoValue,
                                               !.answered = <<>>], out)
    /\ UNCHANGED <<engine_vars, api>>

\* One iteration of the loop: the prompts are answered in order and the run
\* is resumed with the answers.
AnswerInterrupts ==
    /\ runner.class = "DynamicWorkflowRunner" /\ runner.pc = "prompting"
    /\ \E inputs \in [1..Len(runner.halt) -> Inputs] :
         LET v == ResumeValue(runner.halt, inputs) IN
           IF \E i \in 1..Len(v.items) : v.items[i].raised
           THEN runner' = Failure(runner, "resolver error", "Exception")
           ELSE runner' = [runner EXCEPT !.pc = "resuming", !.resume = v,
                                         !.answered = runner.halt,
                                         !.invocations = @ + 1]
    /\ UNCHANGED <<engine_vars, api>>

(***************************************************************************)
(* AsyncWorkflowRunner: the background task and the calls of the API.  The *)
(* task gives way to those calls only where it awaits: in ainvoke and in   *)
(* the sleep of the wait loop.  waited_time counts polls of wait_interval. *)
(***************************************************************************)
\* The tags for which _process_single_interrupt adds type-specific data.
ProcessedTypes ==
    {"review_choice", "human_review_decision", "design_review_choice",
     "code_review_choice", "security_review_choice", "test_cases_review_choice"}

\* _process_single_interrupt
ProcessSingleInterrupt(req) ==
    [raised |-> FALSE,
     interrupt_type |-> InterruptType(req),
     question |-> "from payload",
     has_options |-> req.has_options,
     stage |-> IF InterruptType(req) \in ProcessedTypes
               THEN InterruptType(req) ELSE ""]

\* Variant of Fail: the error is not handed to the error callback.
FailUnreported(r, error) ==
    [r EXCEPT !.pc = "done", !.is_running = FALSE,
              !.outcome = [status |-> "failed", error |-> error,
                           error_type |-> "", callback |-> FALSE]]

\* _notify_workflow_error after is_running = False: the except clause of
\* _run_workflow_background.
Fail(r, error) ==
    [r EXCEPT !.pc = "done", !.is_running = FALSE,
              !.outcome = [status |-> "failed", error |-> error,
                           error_type |-> "",
                           callback |-> r.on_workflow_error]]

\* The task ends: completed when still running, given up when stopped.
Finish(r) ==
    IF r.is_running
    THEN [r EXCEPT !.pc = "done", !.is_running = FALSE,
                   !.outcome.status = "completed"]
    ELSE [r EXCEPT !.pc = "done", !.outcome.status = "stopped"]

\* _handle_workflow_interrupts, then the first test of the wait loop.
HandleWorkflowInterrupts(r, interrupts) ==
    LET data == [i \in 1..Len(interrupts) |-> ProcessSingleInterrupt(interrupts[i])]
        h == [r EXCEPT !.is_interrupted = TRUE,
                       !.pending_interrupt =
                          [type |-> IF Len(interrupts) = 1
                                    THEN "single_interrupt"
                                    ELSE "multiple_interrupts",
                           data |-> data],
                       !.halt = interrupts,
                       !.waited_time = 0]
    IN IF \E i \in 1..Len(data) : data[i].raised
       THEN Fail(r, "resolver error")
       ELSE IF h.interrupt_response = NoValue /\ h.waited_time < MaxPolls
       THEN [h EXCEPT !.pc = "sleeping"]
       ELSE [h EXCEPT !.pc = "resuming", !.resume = h.interrupt_response,
                      !.answered = h.halt, !.invocations = @ + 1]

\* The wait loop is left: the timeout test of _wait_for_interrupt_response,
\* then the loop of _run_workflow_background up to its ainvoke.
AfterWait(r) ==
    IF r.waited_time >= MaxPolls
    THEN Fail(r, "Timeout waiting for interrupt response")
    ELSE IF ~r.is_running THEN Finish(r)
    ELSE IF r.interrupt_response # NoValue
    THEN [r EXCEPT !.pc = "resuming", !.resume = r.interrupt_response,
                   !.answered = r.halt, !.invocations = @ + 1]
    ELSE HandleWorkflowInterrupts(r, r.halt)

\* The sleep of the wait loop returns: count it, break when stopped, test
\* the loop condition.
Wake(r) ==
    LET w == [r EXCEPT !.waited_time = @ + 1] IN
      IF ~w.is_running THEN AfterWait(w)
      ELSE IF w.is_interrupted /\ w.interrupt_response = NoValue
              /\ w.waited_time < MaxPolls
      THEN w
      ELSE AfterWait(w)

\* _run_workflow_background once an ainvoke gave out.
TaskAfterAinvoke(r, out) ==
    LET q == [r EXCEPT !.output = out.kind] IN
      IF out.kind = "raise" THEN Fail(q, "stage error")
      ELSE IF out.kind = "interrupt" /\ q.is_running
      THEN HandleWorkflowInterrupts(q, out.interrupts)
      ELSE Finish(q)

\* The fields of r that belong to the task created last.
Local(r) == [f \in DOMAIN NoTask |-> r[f]]

\* r with the two tasks exchanged.
Swap(r) ==
    [f \in DOMAIN r |->
       IF f = "earlier" THEN Local(r)
       ELSE IF f \in DOMAIN NoTask THEN r.earlier[f]
       ELSE r[f]]

\* The tasks one runner object may have alive: 1 is the task created last,
\* 2 the task created before it.  Focus(t, r) is r as task t sees it.
Tasks == {1, 2}

Focus(t, r) == IF t = 1 THEN r ELSE Swap(r)

\* A task that has been created and has not ended.
Alive == {"invoking", "sleeping", "resuming"}

\* start_workflow, when it does not answer with an error: the background task
\* is created and calls ainvoke.  Nothing ends the task created before; up to
\* two tasks are followed.
StartWorkflow ==
    /\ runner.class = "AsyncWorkflowRunner"
    /\ ~runner.is_running
    /\ runner.runs < RunsFollowed(runner)
    /\ runner.pc \notin Alive \/ runner.earlier.pc \notin Alive
    /\ runner' = [runner EXCEPT !.is_running = TRUE, !.pc = "invoking",
                                !.waited_time = 0, !.output = "",
                                !.halt = <<>>, !.resume = NoValue,
                                !.answered = <<>>, !.outcome = NoOutcome,
                                !.stopped = FALSE,
                                !.invocations = @ + 1, !.runs = @ + 1,
                                !.earlier = IF runner.pc \in Alive
                                            THEN Local(runner)
                                            ELSE runner.earlier]
    /\ UNCHANGED <<engine_vars, api>>

\* The first ainvoke of a task returns or raises.
TaskInvokeReturns ==
    /\ runner.class = "AsyncWorkflowRunner"
    /\ \E t \in Tasks :
         /\ Focus(t, runner).pc = "invoking"
         /\ \E out \in WorkflowOutputs(runner) :
              runner' = Focus(t, TaskAfterAinvoke(Focus(t, runner), out))
    /\ UNCHANGED <<engine_vars, api>>

\* One poll of _wait_for_interrupt_response.
TaskWakes ==
    /\ runner.class = "AsyncWorkflowRunner"
    /\ \E t \in Tasks :
         /\ Focus(t, runner).pc = "sleeping"
         /\ runner' = Focus(t, Wake(Focus(t, runner)))
    /\ UNCHANGED <<engine_vars, api>>

\* ainvoke(Command(resume=...)) returns or raises.
TaskResumeReturns ==
    /\ runner.class = "AsyncWorkflowRunner"
    /\ \E t \in Tasks :
         /\ Focus(t, runner).pc = "resuming"
         /\ \E out \in WorkflowOutputs(runner) :
              LET q == [Focus(t, runner) EXCEPT !.resume = NoValue,
                                                !.answered = <<>>] IN
                IF out.kind = "raise"
                THEN runner' = Focus(t, TaskAfterAinvoke(q, out))
                ELSE runner' = Focus(t, TaskAfterAinvoke(
                                 [q EXCEPT !.interrupt_response = NoValue,
                                           !.is_interrupted = FALSE,
                                           !.pending_interrupt = NoPending],
                                 out))
    /\ UNCHANGED <<engine_vars, api>>

\* What a client of the API may pass to provide_interrupt_response for a
\* halt of k requests: one answer, or a list of up to k answers in order.
ClientResponses(k) ==
    {[list |-> FALSE,
      items |-> <<[raised |-> FALSE, asked |-> 1, via |-> "client",
                   shape |-> "text", text |-> t]>>] :
        t \in Inputs}
      \cup {[list |-> TRUE,
             items |-> [i \in 1..n |-> [raised |-> FALSE, asked |-> i,
                                        via |-> "client", shape |-> "text",
                                        text |-> "a"]]] :
              n \in 1..k}

\* provide_interrupt_response, when it does not answer with an error.
ProvideInterruptResponse ==
    /\ runner.class = "AsyncWorkflowRunner"
    /\ runner.is_interrupted /\ runner.pending_interrupt # NoPending
    /\ \E v \in ClientResponses(Len(runner.pending_interrupt.data)) :
         runner' = [runner EXCEPT !.interrupt_response = v]
    /\ UNCHANGED <<engine_vars, api>>

\* stop_workflow, when it does not answer with an error.
StopWorkflow ==
    /\ runner.class = "AsyncWorkflowRunner" /\ runner.is_running
    /\ runner' = [runner EXCEPT !.is_running = FALSE,
                                !.is_interrupted = FALSE,
                                !.pending_interrupt = NoPending,
                                !.interrupt_response = NoValue,
                                !.stopped = @ \/ runner.pc \in Alive,
                                !.earlier.stopped =
                                   @ \/ runner.earlier.pc \in Alive]
    /\ UNCHANGED <<engine_vars, api>>

RunnerInit ==
    /\ workflow = "dynamic"
    /\ node = "ui_user_inputs_requirements"
    /\ state = InitialState(0)
    /\ resumes = <<>>
    /\ pending = ""
    /\ status = "running"
    /\ last = ""
    /\ entry_state = state
    /\ review_result = NoResult
    /\ revisions = 0
    /\ reviews = 0
    /\ direct = Idle
    /\ input_after = state
    /\ delegated = ""
    /\ review_record = NoRecord
    /\ completed = {}
    /\ api = NoApi
    /\ runner \in {Runner("DynamicWorkflowRunner", FALSE),
                   Runner("AsyncWorkflowRunner", FALSE),
                   Runner("AsyncWorkflowRunner", TRUE),
                   [Runner("AsyncWorkflowRunner", TRUE)
                      EXCEPT !.workflow = "sdlc"]}

RunnerNext ==
    \/ RunWorkflowWithDynamicInterrupts
    \/ AinvokeReturns
    \/ AnswerInterrupts
    \/ StartWorkflow
    \/ TaskInvokeReturns
    \/ TaskWakes
    \/ TaskResumeReturns
    \/ ProvideInterruptResponse
    \/ StopWorkflow

RunnerSpec == RunnerInit /\ [][RunnerNext]_vars

(***************************************************************************)
(* The API (api/main.py): the session store, the request handlers and the  *)
(* background task of each session, which walks a fixed list of stages.    *)
(* A task gives way to the handlers where it awaits: in its sleeps and in   *)
(* its sends.  A send changes no session, so a request that arrives during  *)
(* a send is taken where the task sleeps next.  A send over a registered    *)
(* connection is delivered or raises.                                       *)
(***************************************************************************)
\* What the sends of a step for session i may do: delivered (TRUE) or raised
\* (FALSE); nothing is sent without a registered connection.
Sends(i) == IF i \in api.websocket_connections THEN BOOLEAN ELSE {TRUE}

\* stages of run_workflow_async
Stages ==
    <<"user_stories", "po_review", "design", "design_review", "code",
      "testing", "deployment">>

\* A step starts: what the last step answered and sent is forgotten.
Called(a) ==
    [a EXCEPT !.reply = [op |-> "", session_id |-> 0, code |-> 0],
              !.notices = <<>>]

\* if session_id in websocket_connections: await ...send_text(...)
Notify(a, i, type) ==
    IF i \in a.websocket_connections
    THEN [a EXCEPT !.notices = Append(@, [session_id |-> i, type |-> type])]
    ELSE a

\* The except clause of run_workflow_async, entered when a send raised: its
\* own send goes to the same connection and raises in turn.
ExceptClause(a, i) ==
    [a EXCEPT !.session[i].status = "error",
              !.session[i].error_message = "send raised",
              !.task[i] = "done"]

\* The rest of a loop iteration of run_workflow_async from its progress
\* notice, then the next iteration up to its sleep, or the completion after
\* the last one.  ok1 and ok2 tell whether the first and the second send
\* made are delivered.
NextStage(a, i, ok1, ok2) ==
    LET conn == i \in a.websocket_connections
        k == CHOOSE j \in 1..Len(Stages) : Stages[j] = a.session[i].current_stage
        n == Notify(a, i, "progress_update")
    IN IF conn /\ ~ok1 THEN ExceptClause(a, i)
       ELSE IF k < Len(Stages)
       THEN [n EXCEPT !.session[i].current_stage = Stages[k + 1],
                      !.session[i].progress = k + 1,
                      !.task[i] = "sleeping"]
       ELSE LET c == [n EXCEPT !.session[i].status = "completed",
                               !.session[i].progress = Len(Stages),
                               !.task[i] = "done"]
            IN IF conn /\ ~ok2 THEN ExceptClause(c, i)
               ELSE Notify(c, i, "workflow_completed")

\* POST /workflow/start with a fresh uuid4 id, and the task it creates up to
\* its first sleep: the task runs before any request that names the id.
ApiStartWorkflow ==
    /\ \E i \in 1..MaxSessions :
         /\ api.task[i] = "none"
         /\ \A j \in 1..(i - 1) : api.task[j] # "none"
         /\ \E ok \in Sends(i) :
              LET a == [Called(api) EXCEPT
                          !.workflow_sessions = @ \cup {i},
                          !.session[i] = [NoSession EXCEPT
                                            !.status = "running",
                                            !.current_stage = "user_stories",
                                            !.progress = 1],
                          !.task[i] = "sleeping"]
              IN api' = IF i \in api.websocket_connections /\ ~ok
                        THEN ExceptClause(a, i)
                        ELSE Notify(a, i, "status_update")
    /\ UNCHANGED <<engine_vars, runner>>

\* run_workflow_async when its sleep(2) returns: the simulated interrupt of
\* po_review up to the first sleep(1), or the rest of the iteration.
TaskAfterSleep ==
    /\ \E i \in 1..MaxSessions :
       \E ok1 \in Sends(i), ok2 \in Sends(i) :
         /\ api.task[i] = "sleeping"
         /\ LET a == Called(api)
                conn == i \in a.websocket_connections
                p == [a EXCEPT !.session[i].pending_interrupt = "review_required",
                               !.session[i].status = "waiting_for_input"]
            IN api' =
                 IF a.session[i].current_stage = "po_review"
                    /\ a.session[i].interrupt_response = ""
                 THEN IF conn /\ ~ok1 THEN ExceptClause(p, i)
                      ELSE IF i \in a.workflow_sessions
                      THEN [Notify(p, i, "interrupt_required")
                              EXCEPT !.task[i] = "waiting"]
                      ELSE NextStage(Notify(p, i, "interrupt_required"), i,
                                     ok2, TRUE)
                 ELSE NextStage(a, i, ok1, ok2)
    /\ UNCHANGED <<engine_vars, runner>>

\* run_workflow_async when a sleep(1) of its wait returns: the loop test,
\* and past the loop the response is dropped and the iteration goes on.
TaskAfterPoll ==
    /\ \E i \in 1..MaxSessions :
       \E ok1 \in Sends(i), ok2 \in Sends(i) :
         /\ api.task[i] = "waiting"
         /\ LET a == Called(api) IN
              api' =
                IF a.session[i].interrupt_response = ""
                   /\ i \in a.workflow_sessions
                THEN a
                ELSE IF a.session[i].interrupt_response # ""
                THEN NextStage([a EXCEPT !.session[i].interrupt_response = "",
                                         !.session[i].status = "running"],
                               i, ok1, ok2)
                ELSE NextStage(a, i, ok1, ok2)
    /\ UNCHANGED <<engine_vars, runner>>

\* Variant of RespondToInterrupt: pending_interrupt is left set.
RespondToInterruptKeepsPending ==
    /\ \E i \in 1..MaxSessions :
       \E ok \in Sends(i), response \in {"approve", "request_changes"} :
         LET a == Called(api)
             answer(code) == [a EXCEPT !.reply = [op |-> "respond",
                                                  session_id |-> i,
                                                  code |-> code]]
             s == [a EXCEPT !.session[i].interrupt_response = response,
                            !.session[i].status = "running",
                            !.accepted = @ \cup {i}]
         IN api' =
              IF i \notin a.workflow_sessions THEN answer(404)
              ELSE IF a.session[i].pending_interrupt = "" THEN answer(400)
              ELSE IF i \in a.websocket_connections /\ ~ok
              THEN [s EXCEPT !.reply = [op |-> "respond", session_id |-> i,
                                        code |-> 500]]
              ELSE [Notify(s, i, "interrupt_response_received")
                      EXCEPT !.reply = [op |-> "respond", session_id |-> i,
                                        code |-> 200]]
    /\ UNCHANGED <<engine_vars, runner>>

\* POST /workflow/{session_id}/respond
RespondToInterrupt ==
    /\ \E i \in 1..MaxSessions :
       \E ok \in Sends(i), response \in {"approve", "request_changes"} :
         LET a == Called(api)
             answer(code) == [a EXCEPT !.reply = [op |-> "respond",
                                                  session_id |-> i,
                                                  code |-> code]]
             s == [a EXCEPT !.session[i].interrupt_response = response,
                            !.session[i].pending_interrupt = "",
                            !.session[i].status = "running",
                            !.accepted = @ \cup {i}]
         IN api' =
              IF i \notin a.workflow_sessions THEN answer(404)
              ELSE IF a.session[i].pending_interrupt = "" THEN answer(400)
              ELSE IF i \in a.websocket_connections /\ ~ok
              THEN [s EXCEPT !.reply = [op |-> "respond", session_id |-> i,
                                        code |-> 500]]
              ELSE [Notify(s, i, "interrupt_response_received")
                      EXCEPT !.reply = [op |-> "respond", session_id |-> i,
                                        code |-> 200]]
    /\ UNCHANGED <<engine_vars, runner>>

\* DELETE /workflow/{session_id}
ApiStopWorkflow ==
    /\ \E i \in 1..MaxSessions :
         LET a == Called(api) IN
           api' =
             IF i \notin a.workflow_sessions
             THEN a
             ELSE [a EXCEPT !.workflow_sessions = @ \ {i},
                            !.websocket_connections = @ \ {i}]
    /\ UNCHANGED <<engine_vars, runner>>

\* /ws/{session_id}: a client connects under an id it was given, whether or
\* not the id is still stored, or its connection ends.
WebsocketEndpoint ==
    /\ \E i \in 1..MaxSessions :
         /\ api.task[i] # "none"
         /\ api' = [Called(api) EXCEPT
                      !.websocket_connections =
                         IF i \in @ THEN @ \ {i} ELSE @ \cup {i}]
    /\ UNCHANGED <<engine_vars, runner>>

ApiInit ==
    /\ workflow = "dynamic"
    /\ node = "ui_user_inputs_requirements"
    /\ state = InitialState(0)
    /\ resumes = <<>>
    /\ pending = ""
    /\ status = "running"
    /\ last = ""
    /\ entry_state = state
    /\ review_result = NoResult
    /\ revisions = 0
    /\ reviews = 0
    /\ direct = Idle
    /\ input_after = state
    /\ delegated = ""
    /\ review_record = NoRecord
    /\ completed = {}
    /\ runner = NewRunner
    /\ api = NoApi

ApiNext ==
    \/ ApiStartWorkflow
    \/ TaskAfterSleep
    \/ TaskAfterPoll
    \/ RespondToInterrupt
    \/ ApiStopWorkflow
    \/ WebsocketEndpoint

ApiSpec == ApiInit /\ [][ApiNext]_vars

(***************************************************************************)
(* The phases of the dynamic graph, as its conditional edges lay them out. *)
(***************************************************************************)
NextPhase(n) ==
    CASE n = "product_owner_review" -> "create_design_documents"
      [] n = "design_review"        -> "generate_code"
      [] n = "code_review"          -> "security_review"
      [] n = "security_review"      -> "generate_test_cases"
      [] n = "test_cases_review"    -> "deployment"

RevisionOf(n) ==
    CASE n = "product_owner_review" -> "revise_user_stories"
      [] n = "design_review"        -> "revise_design_documents"
      [] n = "code_review"          -> "fix_code_after_review"
      [] n = "security_review"      -> "fix_code_after_security"
      [] n = "test_cases_review"    -> "revise_test_cases"

IsPrefix(h1, h2) ==
    /\ Len(h1) <= Len(h2)
    /\ \A i \in 1..Len(h1) : h1[i] = h2[i]

\* A review stage of the dynamic graph has just returned and its router fired.
ReviewReturned == workflow = "dynamic" /\ last \in ReviewNodes /\ status = "running"

(***************************************************************************)
(* C1.  After each of the five gated review stages of the dynamic graph,   *)
(* the router sends the run to the next phase when approval_status is      *)
(* "approve", else to the next phase when iteration_count >= MAX_ITERATIONS*)
(* (whatever approval_status is), else to that phase's revision node,      *)
(* whose only successor is the same review node.                           *)
(***************************************************************************)
C1_RouterContract ==
    ReviewReturned =>
      /\ node = IF state.approval_status = "approve" THEN NextPhase(last)
                ELSE IF state.iteration_count >= MAX_ITERATIONS THEN NextPhase(last)
                ELSE RevisionOf(last)
      /\ Edge(RevisionOf(last)) = last

\* A forced exit: not approved, the cap reached, the next phase chosen.
C1_Witness ==
    /\ ReviewReturned
    /\ state.approval_status # "approve"
    /\ state.iteration_count >= MAX_ITERATIONS
    /\ node = NextPhase(last)
    /\ last = "code_review"

(***************************************************************************)
(* C2.  Every run of the dynamic graph in which every pause request is     *)
(* answered eventually reaches the deployment stage, and then the terminal *)
(* node unless deployment raises: no review/revision loop cycles forever,  *)
(* whatever the resume values and the (possibly empty) artifacts.          *)
(***************************************************************************)
C2_ReachesDeployment ==
    (workflow = "dynamic") =>
        <>(last = "deployment" /\ (node = END_ \/ status = "failed"))

\* A run that went through the cap's worth of revisions and completed.
C2_Witness ==
    /\ workflow = "dynamic"
    /\ last = "deployment"
    /\ node = END_
    /\ status = "completed"
    /\ revisions = MAX_ITERATIONS

(***************************************************************************)
(* C3.  As stated: from any caller-supplied initial state, iteration_count *)
(* never decreases from the state a stage receives to the state it         *)
(* returns, and a revision stage increments it by exactly 1.               *)
(***************************************************************************)
C3_NeverDecreases ==
    last # "" =>
      /\ state.iteration_count >= entry_state.iteration_count
      /\ last \in RevisionNodes =>
           state.iteration_count = entry_state.iteration_count + 1

(***************************************************************************)
(* C3, amended.  The entry stage sets iteration_count to 0 whatever the    *)
(* caller supplied; across every other stage iteration_count never         *)
(* decreases, and a revision stage increments it by exactly 1.             *)
(***************************************************************************)
C3_NeverDecreasesAfterEntry ==
    /\ last = "ui_user_inputs_requirements" => state.iteration_count = 0
    /\ last \notin {"", "ui_user_inputs_requirements"} =>
         /\ state.iteration_count >= entry_state.iteration_count
         /\ last \in RevisionNodes =>
              state.iteration_count = entry_state.iteration_count + 1

\* A revision stage has run on a count that earlier revisions had raised.
C3_Witness ==
    /\ last = "revise_design_documents"
    /\ entry_state.iteration_count >= 1
    /\ state.iteration_count = entry_state.iteration_count + 1

(***************************************************************************)
(* C4.  In the terminal state of a completed run iteration_count equals    *)
(* the number of revision-stage executions of the run, whatever branch     *)
(* each execution took.                                                    *)
(***************************************************************************)
C4_CountsRevisions == node = END_ => state.iteration_count = revisions

\* A completed run of the dynamic graph with a security fix among its revisions.
C4_Witness ==
    /\ node = END_
    /\ workflow = "dynamic"
    /\ revisions >= 2
    /\ \E i \in 1..Len(state.review_history) :
         /\ state.review_history[i].stage = "security_review"
         /\ state.review_history[i].iteration < state.iteration_count

(***************************************************************************)
(* C5.  Whenever a revision stage completes, the state it returns has      *)
(* approval_status = "", in the dynamic and in the interrupt-before        *)
(* workflow.                                                               *)
(***************************************************************************)
C5_ApprovalReset == last \in RevisionNodes => state.approval_status = ""

(***************************************************************************)
(* C6.  review_history is append-only: the history a stage returns has the *)
(* history it received as a prefix.                                        *)
(***************************************************************************)
C6_AppendOnly == IsPrefix(entry_state.review_history, state.review_history)

\* A review stage appended its record to a history that had records already.
C6_Witness ==
    /\ last \in ReviewNodes
    /\ Len(entry_state.review_history) >= 2
    /\ Len(state.review_history) = Len(entry_state.review_history) + 1

(***************************************************************************)
(* C7.  At every stage boundary of a run of the dynamic graph the length   *)
(* of review_history equals the number of review-stage executions          *)
(* completed so far, those that complete without pausing included.         *)
(***************************************************************************)
C7_HistoryCountsReviews ==
    workflow = "dynamic" => Len(state.review_history) = reviews

(***************************************************************************)
(* C8.  Driving a review stage through start and resumes, the stage re-run *)
(* from its start each time with the recorded answers replayed in          *)
(* call-site order, pauses where the direct execution waits and returns    *)
(* the output state and review result the direct execution returns.        *)
(***************************************************************************)
C8_ReplayEquivalence ==
    /\ (workflow = "dynamic" /\ status = "paused") =>
         /\ direct.pc \in {"choice", "decision", "feedback", "suggestions"}
         /\ pending = Tag(node, direct.pc)
         /\ direct.out = state
    /\ ReviewReturned =>
         /\ direct.pc = "done"
         /\ direct.out = state
         /\ direct.result = review_result

\* A review that went through all four suspension points and returned.
C8_Witness ==
    /\ ReviewReturned
    /\ direct.pc = "done"
    /\ review_result.reviewer = "Human"
    /\ review_result.suggestions # <<>>
    /\ review_result.feedback = "fb"

(***************************************************************************)
(* C9.  A resume that answers the current suspension point while the       *)
(* stage has another one to come leaves the run paused at that next        *)
(* suspension point of the same stage: the stage does not return, the      *)
(* router does not fire and no later stage runs.                           *)
(***************************************************************************)
C9_StaysPaused ==
    [][(/\ workflow = "dynamic"
        /\ status = "paused"
        /\ direct' # direct
        /\ direct'.pc \in {"decision", "feedback", "suggestions"})
       => (/\ status' = "paused"
           /\ node' = node
           /\ pending' = Tag(node, direct'.pc)
           /\ pending' # pending
           /\ state' = state
           /\ last' = last
           /\ reviews' = reviews)]_vars

\* The run is paused at the third suspension point of a review stage.
C9_Witness ==
    /\ workflow = "dynamic"
    /\ status = "paused"
    /\ Len(resumes) = 2
    /\ pending = Tag(node, "feedback")

(***************************************************************************)
(* C10.  After a router sent the run to a revision stage, the run is back  *)
(* at the same review stage with no resume value recorded, and that stage  *)
(* suspends at its first suspension point when its artifact is non-empty.  *)
(***************************************************************************)
C10_FreshInvocation ==
    [][(workflow = "dynamic" /\ last \in RevisionNodes /\ status = "running")
       => (/\ node \in ReviewNodes
           /\ RevisionOf(node) = last
           /\ resumes = <<>>
           /\ state[ArtifactOf(node)] = "FULL" =>
                /\ status' = "paused"
                /\ pending' = Tag(node, "choice")
                /\ resumes' = <<>>
                /\ node' = node
                /\ state' = state)]_vars

\* After a revision the review stage is paused again at its first call-site.
C10_Witness ==
    /\ workflow = "dynamic"
    /\ last = "fix_code_after_security"
    /\ node = "security_review"
    /\ status = "paused"
    /\ pending = "security_review_choice"
    /\ resumes = <<>>


(***************************************************************************)
(* Graph structure.                                                        *)
(***************************************************************************)
Range(f) == {f[k] : k \in DOMAIN f}

\* The arcs of graph w: its edges and its router outcomes.
Arcs(w) ==
    AddEdge(w) \cup UNION {{<<c.source, t>> : t \in Range(c.path_map)} :
                             c \in AddConditionalEdges(w)}

RECURSIVE Closure(_, _)
Closure(arcs, S) ==
    LET T == S \cup {a[2] : a \in {a \in arcs : a[1] \in S}}
    IN IF T = S THEN S ELSE Closure(arcs, T)

\* Everything reachable from n in graph w, n included.
ReachableFrom(w, n) == Closure(Arcs(w), {n})

\* Everything in graph w from which the terminal is reachable.
ReachesEnd(w) == Closure({<<a[2], a[1]>> : a \in Arcs(w)}, {END_})

\* The router input that carries only the two fields of s a router may read.
RouterView(s) ==
    [InitialState(0) EXCEPT !.approval_status = s.approval_status,
                            !.iteration_count = s.iteration_count]

\* C11: on every state a run reaches, each of the six routers returns a key
\* that its outcome map declares, the key is determined by approval_status
\* and iteration_count alone, and after a review stage the run stands at the
\* target registered for the returned key.
C11_RouterKeysDeclared ==
    /\ \A w \in {"dynamic", "static"} : \A c \in AddConditionalEdges(w) :
         /\ RouterKey(w, c.source, state) \in DOMAIN c.path_map
         /\ RouterKey(w, c.source, state)
              = RouterKey(w, c.source, RouterView(state))
    /\ (last \in ReviewNodes /\ status \in {"running", "completed"})
         => node = PathMap(workflow, last)[RouterKey(workflow, last, state)]

\* A test review approved and routed by the key "deployment"; and the
\* interrupt-before graph ended by the key "create_design_documents".
C11_Witness ==
    \/ /\ ReviewReturned /\ last = "test_cases_review"
       /\ state.approval_status = "approve" /\ node = "deployment"
    \/ /\ workflow = "static" /\ last = "product_owner_review"
       /\ status = "completed"

\* C12: in each of the three graphs the entry node is registered, every
\* edge source and target and every router outcome target is a registered
\* node or END, no node has both an unconditional edge and conditional
\* edges, and no node has more than one router; so a run of any of them is
\* always at a registered node or at END.
C12_GraphWellFormed ==
    /\ workflow \in Graphs
    /\ node \in AddNode(workflow) \cup {END_}
    /\ \A w \in Graphs :
      /\ SetEntryPoint(w) \in AddNode(w)
      /\ \A e \in AddEdge(w) :
           e[1] \in AddNode(w) /\ e[2] \in AddNode(w) \cup {END_}
      /\ \A c \in AddConditionalEdges(w) :
           /\ c.source \in AddNode(w)
           /\ Range(c.path_map) \subseteq AddNode(w) \cup {END_}
           /\ \A e \in AddEdge(w) : e[1] # c.source
           /\ \A d \in AddConditionalEdges(w) : d.source = c.source => d = c

\* A run of the interrupt-before graph has followed a router outcome.
C12_Witness ==
    /\ workflow = "static" /\ last = "product_owner_review"
    /\ node \in Range(PathMap("static", "product_owner_review"))

\* C13: in the dynamic graph every one of the 16 nodes is reachable from the
\* entry node, and the terminal is reachable from every node; a run of the
\* dynamic graph is only ever at a node reachable from the entry.
C13_AllReachable ==
    /\ workflow = "dynamic"
         => node \in ReachableFrom("dynamic", SetEntryPoint("dynamic"))
    /\ Cardinality(AddNode("dynamic")) = 16
    /\ AddNode("dynamic")
         \subseteq ReachableFrom("dynamic", SetEntryPoint("dynamic"))
    /\ AddNode("dynamic") \subseteq ReachesEnd("dynamic")

\* A run has gone from the entry node through deployment to the terminal.
C13_Witness ==
    workflow = "dynamic" /\ last = "deployment" /\ node = END_


\* C14: in every state of a run approval_status is one of "", "approve",
\* "request_changes", "reject".  Stated for the dynamic graph before any
\* review has returned, where no human decision and no delegated review has
\* yet contributed a value.
C14_ApprovalStatusEnum ==
    (workflow = "dynamic" /\ reviews = 0)
      => state.approval_status \in {"", "approve", "request_changes", "reject"}

\* C15: after any stage returns, the state value it received holds the same
\* contents as before the call, its review_history included.
C15_InputNotModified ==
    last # "" => input_after = entry_state


\* A state value whose artifacts are present or absent, never a failure.
ValidState(s) ==
    /\ \A f \in {"user_stories", "design_docs", "code", "test_cases",
                 "review_feedback"} : s[f] \in {"EMPTY", "FULL"}
    /\ s.iteration_count \in Nat

\* C17: when the delegated review or the delegated revision made by the last
\* stage failed, the stage has not raised: it returned a valid state and the
\* run goes on at the next node; if the stage is one of the five review
\* stages its result is the auto-approve result (status "approve", reviewer
\* "Auto").
C17_DelegatedFailureFallsBack ==
    delegated = "FAIL" =>
      /\ status # "failed"
      /\ ValidState(state)
      /\ node \in AddNode(workflow) \cup {END_}
      /\ (workflow = "dynamic" /\ last \in ReviewNodes) =>
           /\ review_result = HandleAutoApprove
           /\ review_result.status = "approve" /\ review_result.reviewer = "Auto"
           /\ state.approval_status = "approve"
           /\ node = NextPhase(last)

\* A review of the dynamic graph whose delegated review failed has returned.
C17_Witness ==
    /\ workflow = "dynamic" /\ last \in ReviewNodes /\ delegated = "FAIL"
    /\ state.review_history # <<>>


C18_UnknownTypeGeneric ==
    /\ runner.outcome.error # "resolver error"
    /\ runner.class = "DynamicWorkflowRunner" =>
         \A i \in 1..Len(runner.answered) :
           InterruptType(runner.answered[i]) \notin KnownTypes =>
             /\ i <= Len(runner.resume.items)
             /\ runner.resume.items[i].via = "generic"
             /\ ~runner.resume.items[i].raised
             /\ runner.resume.items[i].text # ""
    /\ runner.class = "AsyncWorkflowRunner" =>
         \A i \in 1..Len(runner.pending_interrupt.data) :
           LET d == runner.pending_interrupt.data[i] IN
             d.interrupt_type \notin ProcessedTypes =>
               /\ ~d.raised
               /\ runner.runs = 1
                    => d.interrupt_type = InterruptType(runner.halt[i])
               /\ d.question # "" /\ d.stage = ""

\* The interactive runner has resumed a run halted on a request without a
\* type key.
C18_Witness ==
    /\ runner.class = "DynamicWorkflowRunner"
    /\ Len(runner.answered) = 1 /\ runner.answered[1].type = NoType
    /\ runner.resume.items[1].via = "generic"

\* C19: a resume issued for a halt that carried k > 1 pause requests is an
\* ordered sequence of exactly k values, the i-th being the answer to the
\* i-th request, for both runners.
C19_BatchResumeInOrder ==
    Len(runner.answered) > 1 =>
      /\ runner.resume.list
      /\ Len(runner.resume.items) = Len(runner.answered)
      /\ \A i \in 1..Len(runner.answered) :
           i <= Len(runner.resume.items)
             => runner.resume.items[i].asked = runner.answered[i].id

\* C20 (last clause): when the wait of the API runner ends while the run is
\* running and a response has arrived, the run is resumed with that response.
C20_ArrivedResponseUsed ==
    [][(/\ runner.class = "AsyncWorkflowRunner"
        /\ runner.pc = "sleeping" /\ runner'.pc # "sleeping"
        /\ runner.is_running /\ runner.interrupt_response # NoValue)
         => (/\ runner'.pc = "resuming"
             /\ runner'.resume = runner.interrupt_response)]_vars

\* The background executions of the runner that have not ended.
Executions(r) == {t \in Tasks : Focus(t, r).pc \in Alive}

\* The background executions that stand inside an ainvoke call of the workflow.
InAinvoke(r) == {t \in Tasks : Focus(t, r).pc \in {"invoking", "resuming"}}

\* C21: one AsyncWorkflowRunner has at most one background execution alive at
\* any time, so no two of them stand inside an ainvoke call of the workflow
\* together; and start_workflow starts no execution while the runner is
\* running.
C21_OneExecution ==
    /\ [](runner.class = "AsyncWorkflowRunner" =>
            /\ Cardinality(Executions(runner)) <= 1
            /\ Cardinality(InAinvoke(runner)) <= 1)
    /\ [][runner.is_running => runner'.runs = runner.runs]_vars

\* C22: once stop_workflow has returned success, an execution that was alive
\* at the stop makes no further resume of the workflow and never ends as
\* completed; and when such an execution has ended with the runner not
\* running, no pending interrupt and no stored response is left.
C22_StoppedRunAbandoned ==
    /\ [][(runner.class = "AsyncWorkflowRunner" /\ runner'.runs = runner.runs)
            => \A t \in Tasks :
                 Focus(t, runner).stopped =>
                   /\ Focus(t, runner').pc = "resuming"
                        => Focus(t, runner).pc = "resuming"
                   /\ Focus(t, runner').outcome.status # "completed"]_vars
    /\ [](( /\ runner.class = "AsyncWorkflowRunner"
            /\ runner.stopped /\ runner.pc = "done"
            /\ runner.outcome.status = "stopped"
            /\ ~runner.is_running /\ Executions(runner) = {})
           => /\ runner.pending_interrupt = NoPending
              /\ runner.interrupt_response = NoValue
              /\ ~runner.is_interrupted)

\* C23: a review stage whose review-method pause was answered "auto" has
\* returned the auto-approve result, its record and approval_status say
\* "approve", and the run stands at the next phase, whatever iteration_count
\* is; the step that completes it is the one that answers the review-method
\* pause, so the stage pauses no more, and no revision stage follows it.
C23_AutoApproves ==
    /\ []((workflow = "dynamic" /\ last \in ReviewNodes
              /\ review_record.review_method = "auto")
            => /\ review_result.status = "approve"
               /\ review_result.reviewer = "Auto"
               /\ review_record.status = "approve"
               /\ state.approval_status = "approve"
               /\ status # "failed"
               /\ node = NextPhase(last))
    /\ [][(workflow = "dynamic" /\ review_record'.review_method = "auto"
              /\ review_record' # review_record)
            => /\ status = "paused" /\ pending = Tag(node, "choice")
               /\ resumes = <<>>
               /\ status' # "paused" /\ last' = node]_vars
    /\ [][(workflow = "dynamic" /\ last \in ReviewNodes
              /\ review_record.review_method = "auto")
            => last' \notin RevisionNodes]_vars

\* An auto-approved review below the cap, where a review that does not
\* approve is sent to the revision stage.
C23_Witness ==
    /\ workflow = "dynamic" /\ last = "design_review"
    /\ review_record.review_method = "auto"
    /\ state.iteration_count < MAX_ITERATIONS
    /\ node = "generate_code"

\* What the suspension call-site of a stage takes as its resume value: the
\* choice and the decision are compared with keys, the feedback is read from
\* a record with a feedback entry, the suggestions are read as a text; the
\* risk assessment of the security review is read from a record or a text.
ExpectedShapes(type) ==
    IF SiteOf(type) \in {"choice", "decision"} THEN {"key"}
    ELSE IF SiteOf(type) = "feedback" THEN {"feedback_record"}
    ELSE IF type = "human_security_risk_assessment" THEN {"risk_record", "text"}
    ELSE {"text"}

\* C24: every resume value the interactive runner issues for a pause request
\* of a known type is a value returned by the handler of that type, of the
\* shape the call-site takes: a key for choice and decision pauses, a record
\* with a feedback entry for feedback pauses, a text for suggestion pauses;
\* no handler ends without returning a value.
C24_HandlersReturnShape ==
    runner.class = "DynamicWorkflowRunner" =>
      \A i \in 1..Len(runner.answered) :
        InterruptType(runner.answered[i]) \in KnownTypes =>
          /\ i <= Len(runner.resume.items)
          /\ runner.resume.items[i].via = InterruptType(runner.answered[i])
          /\ runner.resume.items[i].shape # "none"
          /\ runner.resume.items[i].shape
               \in ExpectedShapes(InterruptType(runner.answered[i]))

\* C25: one execution of a review stage with a non-empty artifact pauses
\* first for the review-method choice and then, in this order, for the
\* decision only if the choice was "human", for the feedback only if the
\* decision was not "approve", for the suggestions only if the feedback text
\* was not empty.  The k-th pause is the k-th call-site, each resume adds one
\* answer, and the execution returns after 1 pause unless the choice was
\* "human", and else after 2, 3 or 4 pauses as the answers say.
C25_PauseOrder ==
    /\ []((workflow = "dynamic" /\ status = "paused") =>
            /\ state[ArtifactOf(node)] # "EMPTY"
            /\ Len(resumes) <= 3
            /\ pending = Tag(node, Sites[Len(resumes) + 1])
            /\ Len(resumes) >= 1 => resumes[1] = "human"
            /\ Len(resumes) >= 2 => resumes[2] # "approve"
            /\ Len(resumes) >= 3 => FeedbackText(resumes[3]) # "")
    /\ [][workflow = "dynamic" =>
            /\ (status = "running" /\ node \in ReviewNodes
                   /\ state[ArtifactOf(node)] # "EMPTY")
                 => (status' = "paused" /\ resumes' = <<>> /\ node' = node)
            /\ (status = "paused" /\ status' = "paused" /\ resumes' # resumes)
                 => (Len(resumes') = Len(resumes) + 1 /\ node' = node
                       /\ last' = last)
            /\ (status = "paused" /\ status' # "paused")
                 => /\ last' = node
                    /\ review_record'.review_method # "human"
                         => Len(resumes) = 0
                    /\ (review_record'.review_method = "human"
                          /\ review_record'.status = "approve")
                         => Len(resumes) = 1
                    /\ (review_record'.review_method = "human"
                          /\ review_record'.status # "approve"
                          /\ review_result'.feedback = "default")
                         => Len(resumes) = 2
                    /\ (review_record'.review_method = "human"
                          /\ review_record'.status # "approve"
                          /\ review_result'.feedback # "default")
                         => Len(resumes) = 3]_vars

\* The security review is paused for the fourth time, at its risk assessment.
C25_Witness ==
    /\ workflow = "dynamic" /\ status = "paused" /\ node = "security_review"
    /\ Len(resumes) = 3
    /\ pending = "human_security_risk_assessment"

\* C26: when the review-method pause of a review stage is answered with a
\* value that is none of "human", "ai", "auto", the stage returns in that
\* step without pausing again and without failing, its result is that of
\* the delegated (AI) review, and review_method of the record it appends is
\* the value supplied.
C26_UnknownChoiceDelegates ==
    [][(/\ workflow = "dynamic" /\ status = "paused"
        /\ pending = Tag(node, "choice")
        /\ direct' # direct
        /\ direct'.user_choice \notin {"human", "ai", "auto"})
       => (/\ status' \notin {"paused", "failed"}
           /\ last' = node
           /\ delegated' \in AIOutcomes
           /\ review_result' = HandleAIReview(delegated')
           /\ review_result'.reviewer # "Human"
           /\ review_record'.review_method = direct'.user_choice
           /\ review_record'.stage = node
           /\ Len(state'.review_history) = Len(state.review_history) + 1)]_vars

\* A review answered with an unknown choice, whose delegated review asked
\* for changes.
C26_Witness ==
    /\ workflow = "dynamic" /\ last = "design_review"
    /\ review_record.review_method = "other"
    /\ delegated = "request_changes"
    /\ review_result.reviewer = "AI"

\* C27: a review stage of the dynamic graph that finds its artifact empty
\* returns without pausing and without a review, and the run goes on to the
\* first stage of the next phase, never to the revision stage, whatever
\* iteration_count is.
C27_EmptyArtifactAdvances ==
    (/\ workflow = "dynamic" /\ last \in ReviewNodes
     /\ entry_state[ArtifactOf(last)] = "EMPTY")
    => (/\ status # "paused"
        /\ review_record = NoRecord
        /\ state.review_history = entry_state.review_history
        /\ node = NextPhase(last))

\* C28: an execution of a review stage that pauses leaves review_history as
\* it was at every suspension, whichever of its pauses is being answered,
\* and its return appends exactly one record, that of this stage and
\* iteration, after 1, 2, 3 or 4 pauses.
C28_OneRecordPerExecution ==
    [][(workflow = "dynamic" /\ node \in ReviewNodes
        /\ state[ArtifactOf(node)] # "EMPTY")
       => (/\ status' = "paused" =>
                state'.review_history = state.review_history
           /\ (status = "paused" /\ status' # "paused") =>
                /\ Len(resumes) \in 0..3
                /\ state'.review_history =
                     Append(state.review_history,
                            [iteration |-> state.iteration_count, stage |-> node])
                /\ review_record'.stage = node
                /\ review_record'.iteration = state.iteration_count)]_vars

\* A security review that returned after its fourth pause, in a run whose
\* earlier reviews left their records.
C28_Witness ==
    /\ workflow = "dynamic" /\ last = "security_review"
    /\ review_record.review_method = "human"
    /\ review_record.status = "request_changes"
    /\ review_result.suggestions # <<>>
    /\ Len(entry_state.review_history) >= 2
    /\ Len(state.review_history) = Len(entry_state.review_history) + 1

\* C29: in a run of the dynamic graph the revision stages of all five
\* phases together execute at most MAX_ITERATIONS times; from a state whose
\* iteration_count has reached MAX_ITERATIONS no revision stage executes and
\* none is entered, and a review that ends there, approving or not, is
\* followed by the first stage of the next phase.
C29_SharedRevisionCap ==
    /\ [](workflow = "dynamic" =>
            /\ revisions <= MAX_ITERATIONS
            /\ (last \in ReviewNodes /\ status # "paused"
                 /\ state.iteration_count >= MAX_ITERATIONS)
                => node = NextPhase(last))
    /\ [][(workflow = "dynamic" /\ state.iteration_count >= MAX_ITERATIONS)
          => (revisions' = revisions /\ node' \notin RevisionNodes)]_vars

\* The test review asked for changes after the three revisions of the run
\* were spent in earlier phases: the run goes on to deployment.
C29_Witness ==
    /\ workflow = "dynamic" /\ last = "test_cases_review"
    /\ review_record.status = "request_changes"
    /\ revisions = MAX_ITERATIONS
    /\ state.iteration_count = MAX_ITERATIONS
    /\ node = "deployment"

\* The place of a stage in the dynamic graph's layout: a revision stage
\* belongs to the phase of the review it returns to.
Phase(n) ==
    CASE n = "" -> 0
      [] n = "ui_user_inputs_requirements" -> 1
      [] n = "auto_generate_user_stories" -> 2
      [] n \in {"product_owner_review", "revise_user_stories"} -> 3
      [] n = "create_design_documents" -> 4
      [] n \in {"design_review", "revise_design_documents"} -> 5
      [] n = "generate_code" -> 6
      [] n \in {"code_review", "fix_code_after_review"} -> 7
      [] n \in {"security_review", "fix_code_after_security"} -> 8
      [] n = "generate_test_cases" -> 9
      [] n \in {"test_cases_review", "revise_test_cases"} -> 10
      [] n = "deployment" -> 11
      [] n = END_ -> 12

\* C30: in a run of the dynamic graph the stages run in the order
\* requirements, user stories, product-owner review (with its revision),
\* design, design review (with its revision), code generation, code review
\* (with its fix), security review (with its fix), test generation, test
\* review (with its revision), deployment: the stage that runs next is never
\* of an earlier phase than the stage that ran last, and deployment runs
\* only after each of the five review stages has completed.
C30_PhaseOrder ==
    /\ [](workflow = "dynamic" =>
            /\ Phase(node) >= Phase(last)
            /\ (node = "deployment" \/ last = "deployment")
                 => completed = ReviewNodes)
    /\ [][workflow = "dynamic" =>
            (Phase(last') >= Phase(last) /\ Phase(node') >= Phase(node)
             /\ completed \subseteq completed')]_vars

\* Deployment ran in a run that went through revisions on its way.
C30_Witness ==
    /\ workflow = "dynamic" /\ last = "deployment" /\ status = "completed"
    /\ revisions >= 2
    /\ completed = ReviewNodes

\* C31: in a run of the dynamic graph, whenever fix_code_after_review,
\* fix_code_after_security or revise_test_cases executes, the artifact it
\* revises and review_feedback are both non-empty, so the stage takes its
\* full path: iteration_count is raised by one and approval_status and
\* review_feedback are reset.
C31_RevisionsTakeFullPath ==
    /\ []((workflow = "dynamic" /\ status = "running") =>
            /\ node \in {"fix_code_after_review", "fix_code_after_security"}
                 => (state.code # "EMPTY" /\ state.review_feedback # "EMPTY")
            /\ node = "revise_test_cases"
                 => (state.test_cases # "EMPTY" /\ state.review_feedback # "EMPTY"))
    /\ [][(/\ workflow = "dynamic" /\ status = "running"
            /\ node \in {"fix_code_after_review", "fix_code_after_security",
                          "revise_test_cases"}
            /\ last' = node)
          => (/\ state'.iteration_count = state.iteration_count + 1
              /\ state'.approval_status = ""
              /\ state'.review_feedback = "EMPTY"
              /\ state'.current_stage \in
                   {"code_fixed_after_review", "code_fixed_after_security",
                    "test_cases_revised"})]_vars

\* The security fix ran after a code fix in the same run.
C31_Witness ==
    /\ workflow = "dynamic" /\ last = "fix_code_after_security"
    /\ state.current_stage = "code_fixed_after_security"
    /\ state.iteration_count = 2
    /\ entry_state.review_feedback = "FULL"

\* C32: every run that reaches the deployment stage completes it without
\* raising and ends with current_stage "deployment_complete" (the stage
\* that sets deployment_status to ready_for_deployment), whatever artifacts
\* reach it, a run without code and test cases included.
C32_DeploymentCompletes ==
    (workflow = "dynamic" /\ last = "deployment")
    => (/\ status = "completed"
        /\ state.current_stage = "deployment_complete")

\* C33: in a run of AsyncWorkflowRunner that is started once and not
\* stopped, a response that provide_interrupt_response has stored is
\* replaced or cleared only when the background loop has passed it to a
\* resume of the workflow.
C33_ResponseUsedOnce ==
    [][(/\ runner.class = "AsyncWorkflowRunner"
        /\ runner.runs = 1 /\ runner.is_running /\ runner'.is_running
        /\ runner.interrupt_response # NoValue
        /\ runner'.interrupt_response # runner.interrupt_response)
       => (runner.pc = "resuming"
           /\ runner.resume = runner.interrupt_response)]_vars

\* C34: provide_interrupt_response of AsyncWorkflowRunner stores a response
\* only while a run is active and paused: a call made when no interrupt is
\* pending, or after the run was stopped or has failed, leaves
\* interrupt_response as it was.
C34_ResponseOnlyWhilePaused ==
    [][(/\ runner.class = "AsyncWorkflowRunner"
        /\ runner'.interrupt_response # NoValue
        /\ runner'.interrupt_response # runner.interrupt_response)
       => (/\ runner.is_running
           /\ runner.is_interrupted
           /\ runner.pending_interrupt # NoPending)]_vars

\* C35: a respond request is answered 404 exactly when the session id is
\* not stored and 400 exactly when the session is stored with no pending
\* interrupt, and in both cases no session and no entry of the store is
\* changed; a response that is taken clears pending_interrupt, and a
\* session that has taken a response takes no second one: a further respond
\* request is answered 400 (404 once the session is removed).
C35_RespondOncePerPause ==
    [][api'.reply.op = "respond" =>
         LET i == api'.reply.session_id
             code == api'.reply.code
         IN /\ code = 404 <=> i \notin api.workflow_sessions
            /\ code = 400 <=> (/\ i \in api.workflow_sessions
                               /\ api.session[i].pending_interrupt = "")
            /\ code \in {400, 404} =>
                 (/\ api'.session = api.session
                  /\ api'.workflow_sessions = api.workflow_sessions
                  /\ api'.accepted = api.accepted)
            /\ code \notin {400, 404} =>
                 (/\ api'.session[i].pending_interrupt = ""
                  /\ api'.session[i].interrupt_response # ""
                  /\ i \in api'.accepted)
            /\ i \in api.accepted => code \in {400, 404}]_vars

\* A second respond request to a stored session whose pause has taken a
\* response is answered 400.
C35_Witness ==
    /\ api.reply = [op |-> "respond", session_id |-> 1, code |-> 400]
    /\ 1 \in api.accepted
    /\ 1 \in api.workflow_sessions
    /\ api.session[1].interrupt_response # ""

\* C36: in every stored session pending_interrupt is set only while status
\* is "waiting_for_input" and current_stage is "po_review"; and the task of
\* a stored session leaves po_review, and the session becomes completed,
\* only after a response has been taken for it.
C36_PendingOnlyWhileWaiting ==
    /\ [](\A i \in api.workflow_sessions :
            api.session[i].pending_interrupt # "" =>
              (/\ api.session[i].status = "waiting_for_input"
               /\ api.session[i].current_stage = "po_review"))
    /\ [][\A i \in api'.workflow_sessions :
            (\/ /\ api.session[i].current_stage = "po_review"
                /\ api'.session[i].current_stage # "po_review"
             \/ /\ api.session[i].status # "completed"
                /\ api'.session[i].status = "completed")
            => i \in api.accepted]_vars

\* C37: once a session has been removed by DELETE, its task changes nothing
\* of the session and sends no notice under its id; and a step changes the
\* session of one id only.
C37_RemovedSessionIsQuiet ==
    [][/\ \A i \in 1..MaxSessions :
            (api.task[i] # "none" /\ i \notin api.workflow_sessions) =>
              (/\ api'.session[i] = api.session[i]
               /\ \A n \in 1..Len(api'.notices) :
                    api'.notices[n].session_id # i)
       /\ \A i, j \in 1..MaxSessions :
            (api'.session[i] # api.session[i]
             /\ api'.session[j] # api.session[j]) => i = j]_vars

\* C38: in the interrupt-before graph under ProperWorkflowRunner the run
\* pauses each time it arrives at product_owner_review, first and after
\* every revise_user_stories; product_owner_review executes only from the
\* resumed run, that is after the runner asked for a review choice and
\* resumed since the execution before; and revise_user_stories executes at
\* most MAX_ITERATIONS times.
C38_PauseBeforeEveryReview ==
    /\ [](workflow = "static" =>
            /\ revisions <= MAX_ITERATIONS
            /\ reviews <= revisions + 1
            /\ status = "resumed" =>
                 (node = "product_owner_review" /\ state.user_stories # "EMPTY"))
    /\ [][workflow = "static" =>
            /\ (status = "running" /\ node = "product_owner_review")
                 => (status' = "paused" /\ reviews' = reviews /\ state' = state)
            /\ reviews' # reviews
                 => (/\ status = "resumed" /\ status' # "resumed"
                     /\ last' = "product_owner_review"
                     /\ reviews' = reviews + 1)
            /\ (status # "resumed" /\ status' = "resumed")
                 => (status = "paused" /\ pending = "interrupt_before")]_vars

\* The review executed a fourth time, after the third revision, and the run
\* ended.
C38_Witness ==
    /\ workflow = "static" /\ last = "product_owner_review"
    /\ revisions = MAX_ITERATIONS /\ reviews = MAX_ITERATIONS + 1
    /\ status = "completed"

\* C39: in the interrupt-before graph, a run resumed after the choice "auto"
\* (the one choice whose update sets approval_status to "approved") ends at
\* the terminal node with approval_status "approved", whatever the review
\* node's own delegated review returns, and revise_user_stories is not
\* entered.
C39_AutoChoiceApproves ==
    [][(/\ workflow = "static" /\ status = "resumed"
        /\ state.approval_status = "approved"
        /\ last' = "product_owner_review" /\ reviews' = reviews + 1)
       => (/\ state'.approval_status = "approved"
           /\ node' = END_
           /\ status' = "completed")]_vars

====
